---- MODULE Spec2Model ----
(***************************************************************************)
(* A model of snip's document analysis and positional search index:        *)
(* tokenizing, stemming and fragment scanning of a document (doc.rs),      *)
(* the index writer (Snip::index, index_all_items), the structured search  *)
(* (search.rs), the context window of an excerpt (analysis.rs), the        *)
(* document store with attachments (Snip::update, remove_snip), the        *)
(* resolution of a partial uuid, the encodings of the positions and        *)
(* timestamp columns, the commands of main (add, import, update, rename,   *)
(* rm, index, search) with and without failing statements, find_by_graph,  *)
(* and search_structured running while another connection writes.          *)
(*                                                                         *)
(* Strings are sequences of one-character strings.  Every character of     *)
(* the analyzed texts is one byte long, so a byte offset of the code is    *)
(* the zero-based index of a character here.  Option<T> is a sequence of   *)
(* length 0 (None) or 1 (Some).                                            *)
(***************************************************************************)
EXTENDS Integers, Sequences, FiniteSets, TLC

VARIABLES
    snip,           \* table snip, rows in rowid order
    snip_index_rs,  \* table snip_index_rs, rows in rowid order
    s,              \* the Snip struct held by the running caller
    pc,             \* position of the running command
    cmd,            \* the command that is running
    todo,           \* rows the running command has still to visit
    terms_positions,\* Snip::index: the stems not yet written, with positions
    calls,          \* number of times index() was called on s
    rows_before,    \* the rows of s.uuid when the running call began
    analyzed,       \* number of times analyze() was called on s by its caller
    query,          \* the last SearchQuery evaluated
    result,         \* what search_structured returned for it
    context,        \* the last call of get_term_context_positions
    lookup,         \* the last call of a function that only reads
    snip_attachment,\* table snip_attachment, rows in rowid order
    index_before,   \* snip_index_rs when the running index_all_items began
    failures,       \* number of statements that have failed
    evaluation      \* search_structured running on a second connection

vars == <<snip, snip_index_rs, s, pc, cmd, todo, terms_positions, calls,
          rows_before, analyzed, query, result, context, lookup,
          snip_attachment, index_before, failures, evaluation>>

-----------------------------------------------------------------------------
(* Bounds *)

\* longest document text of the analysis specification, in characters
MaxLen == 4
\* most words of a document text stored in the database
MaxWords == 2
\* most calls of analyze() on one Snip
MaxAnalyze == 2
\* most calls of index() on one Snip
MaxIndexCalls == 2
\* widest context asked of get_term_context_positions
MaxContext == 2
\* most include terms, exclude terms and uuids of a query
MaxInclude == 2
MaxExclude == 1
MaxUuids == 2
\* longest position list and largest position given to the encoding
MaxPositions == 2
MaxPosition == 11
\* most statements that fail in one run
MaxFailures == 1
\* length of a uuid string, most rows of a table searched by partial uuid,
\* longest partial uuid
IdLen == 2
MaxStored == 2
MaxPartial == 2
\* longest word given to the stemmers
MaxWordLen == 3
\* most rows of an index table that was not written by index()
MaxRows == 2
\* largest value of --excerpts given to the search command
MaxExcerptLimit == 1
\* longest word and longest text given to find_by_graph, in graphemes
MaxGraphWord == 2
MaxGraphText == 3

-----------------------------------------------------------------------------
(* Strings *)

None == <<>>
Some(x) == <<x>>

Letters == {"a", "s", "A"}
NonWord == {" ", "!"}
Alphabet == Letters \cup NonWord
Vowels == {"a"}
\* the right single quotation mark U+2019 and the ASCII apostrophe
RSQUO == "~"
APOS == "'"

Strings(alphabet, n) == UNION {[1..k -> alphabet] : k \in 0..n}

RECURSIVE Concat(_)
\* [&str]::concat
Concat(strs) ==
    IF strs = <<>> THEN <<>> ELSE Head(strs) \o Concat(Tail(strs))

RECURSIVE Join(_, _)
\* [String]::join
Join(strs, sep) ==
    IF Len(strs) = 0 THEN <<>>
    ELSE IF Len(strs) = 1 THEN strs[1]
    ELSE strs[1] \o sep \o Join(Tail(strs), sep)

\* str::get(from..to): None when the range is reversed or past the end
StrGet(text, from, to) ==
    IF from <= to /\ to <= Len(text)
    THEN Some(SubSeq(text, from + 1, to))
    ELSE None

\* str::to_lowercase
ToLowercase(w) == [i \in 1..Len(w) |-> IF w[i] = "A" THEN "a" ELSE w[i]]

\* str::replace(from, to) for a one-character pattern
Replace(w, from, to) == [i \in 1..Len(w) |-> IF w[i] = from THEN to ELSE w[i]]

RECURSIVE SortedSeq(_)
SortedSeq(S) ==
    IF S = {} THEN <<>>
    ELSE LET m == CHOOSE x \in S : \A y \in S : x <= y
         IN <<m>> \o SortedSeq(S \ {m})

-----------------------------------------------------------------------------
(* Tokenizer and stemmer *)

\* the characters that UAX #29 keeps inside a word when a letter stands on
\* either side: the apostrophe and the right single quotation mark
MidLetters == {APOS, RSQUO}

RECURSIVE ByteLen(_)
\* str::len: the right single quotation mark takes three bytes of UTF-8
ByteLen(str) ==
    IF str = <<>> THEN 0
    ELSE (IF Head(str) = RSQUO THEN 3 ELSE 1) + ByteLen(Tail(str))

\* UnicodeSegmentation::unicode_word_indices: the maximal runs of letters,
\* a run going on through one apostrophe between two letters, each with
\* the byte offset of its first character, in text order.
unicode_word_indices(text) ==
    LET InWord(i) ==
            \/ text[i] \in Letters
            \/ /\ text[i] \in MidLetters
               /\ i > 1 /\ i < Len(text)
               /\ text[i-1] \in Letters /\ text[i+1] \in Letters
        starts == {i \in 1..Len(text) : InWord(i) /\ (i = 1 \/ ~InWord(i-1))}
        EndOf(i) == CHOOSE j \in i..Len(text) :
                      /\ \A k \in i..j : InWord(k)
                      /\ (j = Len(text) \/ ~InWord(j+1))
        st == SortedSeq(starts)
    IN [k \in 1..Len(st) |->
           [offset |-> ByteLen(SubSeq(text, 1, st[k] - 1)),
            word |-> SubSeq(text, st[k], EndOf(st[k]))]]

\* rust_stemmers English (Snowball) stemmer on lowercase words.  Words
\* shorter than three characters are returned as they are.  The prelude
\* deletes an apostrophe at the start; step 1a first deletes the longest
\* of the endings 's' and 's and ', then, of the suffixes the algorithm
\* knows, only "ss" and "s" can be spelled with the letters a and s: "ss"
\* is kept, "s" is deleted when the part before it has a vowel that is not
\* the character immediately before the s.  The right single quotation
\* mark is a character like any consonant to the stemmer.
Stem(w) ==
    IF Len(w) < 3 THEN w
    ELSE LET p == IF w[1] = APOS THEN Tail(w) ELSE w
             m == Len(p)
             q == IF m >= 3 /\ SubSeq(p, m - 2, m) = <<APOS, "s", APOS>>
                  THEN SubSeq(p, 1, m - 3)
                  ELSE IF m >= 2 /\ SubSeq(p, m - 1, m) = <<APOS, "s">>
                  THEN SubSeq(p, 1, m - 2)
                  ELSE IF m >= 1 /\ p[m] = APOS
                  THEN SubSeq(p, 1, m - 1)
                  ELSE p
             n == Len(q)
         IN IF n >= 2 /\ q[n] = "s" /\ q[n-1] = "s" THEN q
            ELSE IF n >= 1 /\ q[n] = "s" /\ (\E i \in 1..(n-2) : q[i] \in Vowels)
                 THEN SubSeq(q, 1, n - 1)
            ELSE q

SnipWord(word, offset) ==
    [word |-> word, stem |-> <<>>, prefix |-> None, suffix |-> None,
     index |-> None, offset |-> offset]

\* Snip::split_words: pushes one SnipWord per token onto analysis.words
split_words(sn) ==
    LET words == unicode_word_indices(sn.text) IN
    [sn EXCEPT !.analysis.words =
        @ \o [k \in 1..Len(words) |-> SnipWord(words[k].word, words[k].offset)]]

\* Snip::stem_words: stems every word of the analysis
stem_words(sn) ==
    LET words == sn.analysis.words IN
    [sn EXCEPT !.analysis.words =
        [k \in 1..Len(words) |->
            [words[k] EXCEPT
                !.stem = Stem(Replace(ToLowercase(words[k].word), RSQUO, APOS))]]]

\* stem_vec of main: the stems the search command derives from its terms
stem_vec(words) == [i \in 1..Len(words) |-> Stem(ToLowercase(words[i]))]

-----------------------------------------------------------------------------
(* Fragment scanner *)

RECURSIVE ScanWindows(_, _, _, _, _, _, _)
\* the loop of Snip::scan_fragments over words.windows(2), from window k on
ScanWindows(words, text, k, offset, suffix_last, prefixes, suffixes) ==
    IF k + 1 > Len(words) THEN [prefixes |-> prefixes, suffixes |-> suffixes]
    ELSE
    LET word0 == words[k]
        offset_next == words[k+1].offset
        prefix == IF suffix_last # None THEN suffix_last
                  ELSE StrGet(text, offset, word0.offset)
        suffix_slice == StrGet(text, word0.offset + Len(word0.word), offset_next)
        suffix_last2 == IF suffix_slice # None THEN suffix_slice ELSE suffix_last
        suffix == IF suffix_slice # None THEN suffix_last2 ELSE None
    IN ScanWindows(words, text, k + 1, word0.offset + Len(word0.word),
                   suffix_last2, Append(prefixes, prefix), Append(suffixes, suffix))

\* Snip::scan_fragments
scan_fragments(sn) ==
    LET words == sn.analysis.words
        scanned == ScanWindows(words, sn.text, 1, 0, None, <<>>, <<>>)
        last_suffix ==
            IF words = <<>> THEN None
            ELSE LET last_word == words[Len(words)]
                 IN StrGet(sn.text, last_word.offset + Len(last_word.word),
                           Len(sn.text))
        prefixes == scanned.prefixes
        suffixes == IF last_suffix # None
                    THEN Append(scanned.suffixes, last_suffix)
                    ELSE scanned.suffixes
    IN [sn EXCEPT !.analysis.words =
        [i \in 1..Len(words) |->
            [words[i] EXCEPT
                !.prefix = IF i <= Len(prefixes) THEN prefixes[i] ELSE @,
                !.suffix = IF i <= Len(suffixes) THEN suffixes[i] ELSE @]]]

\* Snip::analyze
analyze(sn) == scan_fragments(stem_words(split_words(sn)))

-----------------------------------------------------------------------------
(* Excerpt context window *)

\* get_term_context_positions with the first ordinal of the window left out
get_term_context_positions_open(words, position, count) ==
    LET context_prefix_pos == IF position - count <= 0 THEN 0 ELSE position - count
        context_suffix_pos == IF position + 1 > Len(words) THEN Len(words)
                              ELSE position + 1
        context_prefix == SortedSeq({i \in 0..(Len(words) - 1) :
                                        i > context_prefix_pos /\ i < position})
        context_suffix == SortedSeq({i \in 0..(Len(words) - 1) :
                                        i > position /\ i < context_suffix_pos + count})
    IN context_prefix \o <<position>> \o context_suffix

\* SnipAnalysis::get_term_context_positions
get_term_context_positions(words, position, count) ==
    LET context_prefix_pos == IF position - count <= 0 THEN 0 ELSE position - count
        context_suffix_pos == IF position + 1 > Len(words) THEN Len(words)
                              ELSE position + 1
        context_prefix == SortedSeq({i \in 0..(Len(words) - 1) :
                                        i >= context_prefix_pos /\ i < position})
        context_suffix == SortedSeq({i \in 0..(Len(words) - 1) :
                                        i > position /\ i < context_suffix_pos + count})
    IN context_prefix \o <<position>> \o context_suffix

-----------------------------------------------------------------------------
(* The positions column *)

Digits == <<"0", "1", "2", "3", "4", "5", "6", "7", "8", "9">>

RECURSIVE u64_to_string(_)
\* u64::to_string
u64_to_string(n) ==
    IF n < 10 THEN <<Digits[n + 1]>>
    ELSE u64_to_string(n \div 10) \o <<Digits[(n % 10) + 1]>>

\* WordIndex::positions_to_string
positions_to_string(positions) ==
    Join([i \in 1..Len(positions) |-> u64_to_string(positions[i])], <<",">>)

RECURSIVE Split(_, _)
\* str::split(sep) for a one-character separator: always at least one field
Split(str, sep) ==
    IF \E i \in 1..Len(str) : str[i] = sep
    THEN LET i == CHOOSE i \in 1..Len(str) :
                     str[i] = sep /\ \A j \in 1..(i - 1) : str[j] # sep
         IN <<SubSeq(str, 1, i - 1)>> \o Split(SubSeq(str, i + 1, Len(str)), sep)
    ELSE <<str>>

DigitValue(c) == (CHOOSE d \in 1..10 : Digits[d] = c) - 1

RECURSIVE DigitsValue(_)
DigitsValue(str) ==
    IF str = <<>> THEN 0
    ELSE 10 * DigitsValue(SubSeq(str, 1, Len(str) - 1)) + DigitValue(str[Len(str)])

\* str::parse::<u64> and str::parse::<usize>: None for an empty field and
\* for a field with a character that is not a digit (one leading + is read)
parse_u64(str) ==
    LET digits == IF str # <<>> /\ str[1] = "+" THEN Tail(str) ELSE str IN
    IF digits # <<>> /\ \A i \in 1..Len(digits) : \E d \in 1..10 : Digits[d] = digits[i]
    THEN Some(DigitsValue(digits))
    ELSE None

\* WordIndex::positions_to_u64: None stands for the Err of a failed parse
positions_to_u64(pos) ==
    LET split == Split(pos, ",") IN
    IF \E i \in 1..Len(split) : parse_u64(split[i]) = None
    THEN None
    ELSE Some([i \in 1..Len(split) |-> parse_u64(split[i])[1]])

-----------------------------------------------------------------------------
(* The timestamp column *)

\* A DateTime<Utc> is the number of nanoseconds since the start of its
\* minute; the date, the hour and the minute are the same for every
\* timestamp here and are left out of the string.

RECURSIVE PadZero(_, _)
\* the digits of a field of fixed width
PadZero(str, width) ==
    IF Len(str) >= width THEN str ELSE PadZero(<<"0">> \o str, width)

UtcOffset == <<"+", "0", "0", ":", "0", "0">>

\* to_rfc3339 that drops the fraction of the second
to_rfc3339_secs(timestamp) ==
    PadZero(u64_to_string(timestamp \div 1000000000), 2) \o UtcOffset

\* DateTime::to_rfc3339: seconds, then no fraction or a fraction of 3, 6 or
\* 9 digits, whichever is the shortest that loses nothing, then the offset
to_rfc3339(timestamp) ==
    LET secs == timestamp \div 1000000000
        nanos == timestamp % 1000000000
        fraction ==
            IF nanos = 0 THEN <<>>
            ELSE IF nanos % 1000000 = 0
                 THEN <<".">> \o PadZero(u64_to_string(nanos \div 1000000), 3)
            ELSE IF nanos % 1000 = 0
                 THEN <<".">> \o PadZero(u64_to_string(nanos \div 1000), 6)
            ELSE <<".">> \o PadZero(u64_to_string(nanos), 9)
    IN PadZero(u64_to_string(secs), 2) \o fraction \o UtcOffset

RECURSIVE PadRight(_, _)
PadRight(str, width) ==
    IF Len(str) >= width THEN str ELSE PadRight(str \o <<"0">>, width)

IsDigits(str) ==
    str # <<>> /\ \A i \in 1..Len(str) : \E d \in 1..10 : Digits[d] = str[i]

\* DateTime::parse_from_rfc3339(ts).to_utc(): None stands for the Err of a
\* string that is not two digits, an optional fraction of one to nine
\* digits and the offset of UTC
parse_from_rfc3339(ts) ==
    LET n == Len(ts) - Len(UtcOffset)
        body == SubSeq(ts, 1, n)
    IN IF n < 2 \/ SubSeq(ts, n + 1, Len(ts)) # UtcOffset
          \/ ~IsDigits(SubSeq(body, 1, 2))
       THEN None
       ELSE IF n = 2 THEN Some(DigitsValue(body) * 1000000000)
       ELSE IF n >= 4 /\ n <= 12 /\ body[3] = "." /\ IsDigits(SubSeq(body, 4, n))
            THEN Some(DigitsValue(SubSeq(body, 1, 2)) * 1000000000
                      + DigitsValue(PadRight(SubSeq(body, 4, n), 9)))
       ELSE None

-----------------------------------------------------------------------------
(* Index writer *)

\* drop_word_indices without the WHERE clause
drop_word_indices_all(index, uuid) == <<>>

\* drop_word_indices that deletes nothing
drop_word_indices_none(index, uuid) == index

\* Snip::drop_word_indices: DELETE FROM snip_index_rs WHERE uuid = :uuid
drop_word_indices(index, uuid) ==
    SelectSeq(index, LAMBDA row : row.uuid # uuid)

\* Snip::index, the grouping of the ordinals of the analysis by stem
\* (the HashMap terms_positions); the HashMap terms is never read
group_positions(words) ==
    [stem \in {words[i].stem : i \in 1..Len(words)} |->
        SortedSeq({i - 1 : i \in {j \in 1..Len(words) : words[j].stem = stem}})]

\* word_index with the count of the HashMap terms, which starts at 1 and is
\* incremented for every occurrence
word_index_terms(term, positions) ==
    [count |-> Len(positions) + 1, positions |-> positions, term |-> term]

\* Snip::index, the WordIndex built for one entry of terms_positions
word_index(term, positions) ==
    [count |-> Len(positions), positions |-> positions, term |-> term]

\* write_word_index on a table whose key is the uuid: the new row replaces
\* the rows of the uuid
write_word_index_keyed(index, uuid, word) ==
    Append(SelectSeq(index, LAMBDA row : row.uuid # uuid),
           [term |-> word.term, uuid |-> uuid, count |-> word.count,
            positions |-> positions_to_string(word.positions)])

\* Snip::write_word_index: the table has no key, so INSERT OR REPLACE
\* always adds one row
write_word_index(index, uuid, word) ==
    Append(index, [term |-> word.term, uuid |-> uuid, count |-> word.count,
                   positions |-> positions_to_string(word.positions)])

\* index that analyzes on every call
ensure_analyzed_always(sn) == analyze(sn)

\* Snip::index: "ensure that item has been analyzed"
ensure_analyzed(sn) == IF sn.analysis.words = <<>> THEN analyze(sn) ELSE sn

\* clear_index: DELETE FROM snip_index_rs
clear_index(index) == <<>>

\* snip_from_db that loses the text of the row
snip_from_db_no_text(row) ==
    [uuid |-> row.uuid, name |-> row.name, text |-> <<>>,
     timestamp |-> parse_from_rfc3339(row.timestamp)[1],
     analysis |-> [words |-> <<>>], attachments |-> <<>>]

\* snip_from_db, as get_from_uuid and index_all_items use it on a row
snip_from_db(row) ==
    [uuid |-> row.uuid, name |-> row.name, text |-> row.text,
     timestamp |-> parse_from_rfc3339(row.timestamp)[1],
     analysis |-> [words |-> <<>>], attachments |-> <<>>]

-----------------------------------------------------------------------------
(* Structured search *)

SeqToSet(seq) == {seq[i] : i \in 1..Len(seq)}

\* search_uuids_matching_term: SELECT uuid FROM snip_index_rs WHERE term = :term
search_uuids_matching_term(index, term) ==
    LET rows == SelectSeq(index, LAMBDA row : row.term = term)
    IN [i \in 1..Len(rows) |-> rows[i].uuid]

\* get_term_positions that selects on the uuid alone
get_term_positions_any(index, id, term) ==
    LET rows == SelectSeq(index, LAMBDA row : row.uuid = id)
    IN IF rows = <<>> THEN [ok |-> TRUE, positions |-> <<>>]
       ELSE LET split == Split(rows[1].positions, ",") IN
            IF \E i \in 1..Len(split) : parse_u64(split[i]) = None
            THEN [ok |-> FALSE, positions |-> <<>>]
            ELSE [ok |-> TRUE,
                  positions |-> [i \in 1..Len(split) |-> parse_u64(split[i])[1]]]

\* get_term_positions that reads a row that does not parse as no positions
get_term_positions_skip(index, id, term) ==
    LET rows == SelectSeq(index, LAMBDA row : row.uuid = id /\ row.term = term)
    IN IF rows = <<>> \/ positions_to_u64(rows[1].positions) = None
       THEN [ok |-> TRUE, positions |-> <<>>]
       ELSE [ok |-> TRUE, positions |-> positions_to_u64(rows[1].positions)[1]]

\* get_term_positions: the positions of the first row of (id, term), the
\* empty list when there is none; ok is FALSE when a field does not parse
\* and the expect() panics
get_term_positions(index, id, term) ==
    LET rows == SelectSeq(index, LAMBDA row : row.uuid = id /\ row.term = term)
    IN IF rows = <<>> THEN [ok |-> TRUE, positions |-> <<>>]
       ELSE LET split == Split(rows[1].positions, ",") IN
            IF \E i \in 1..Len(split) : parse_u64(split[i]) = None
            THEN [ok |-> FALSE, positions |-> <<>>]
            ELSE [ok |-> TRUE,
                  positions |-> [i \in 1..Len(split) |-> parse_u64(split[i])[1]]]

RECURSIVE IncludeLoop(_, _, _, _)
\* search_structured, the INCLUDE loop from term i on
IncludeLoop(index, terms_include, i, include_results) ==
    IF i > Len(terms_include) THEN include_results
    ELSE LET found == search_uuids_matching_term(index, terms_include[i]) IN
         IF i = 1
         THEN IF Len(terms_include) = 1 THEN include_results \o found
              ELSE IncludeLoop(index, terms_include, i + 1, include_results \o found)
         ELSE IncludeLoop(index, terms_include, i + 1,
                          SelectSeq(include_results,
                                    LAMBDA id : id \in SeqToSet(found)))

RECURSIVE PushNew(_, _)
\* search_structured, the inner EXCLUDE loop: pushes the ids not yet held
PushNew(exclude_results, found) ==
    IF found = <<>> THEN exclude_results
    ELSE PushNew(IF Head(found) \in SeqToSet(exclude_results)
                 THEN exclude_results
                 ELSE Append(exclude_results, Head(found)),
                 Tail(found))

RECURSIVE ExcludeLoop(_, _, _, _)
\* search_structured, the EXCLUDE loop from term i on
ExcludeLoop(index, terms_exclude, i, exclude_results) ==
    IF i > Len(terms_exclude) THEN exclude_results
    ELSE ExcludeLoop(index, terms_exclude, i + 1,
                     PushNew(exclude_results,
                             search_uuids_matching_term(index, terms_exclude[i])))

\* candidates without the subtraction of the exclude results
candidates_include_only(index, search_query) ==
    IF search_query.uuids = <<>>
    THEN IncludeLoop(index, search_query.terms_include, 1, <<>>)
    ELSE search_query.uuids

\* candidates with the exclude terms applied to the supplied uuids as well
candidates_exclude_all(index, search_query) ==
    LET include_results ==
            IF search_query.uuids = <<>>
            THEN IncludeLoop(index, search_query.terms_include, 1, <<>>)
            ELSE search_query.uuids
        exclude_results == ExcludeLoop(index, search_query.terms_exclude, 1, <<>>)
    IN SelectSeq(include_results, LAMBDA id : id \notin SeqToSet(exclude_results))

\* search_structured, the candidates of BUILD OUTPUT
candidates(index, search_query) ==
    IF search_query.uuids = <<>>
    THEN LET include_results == IncludeLoop(index, search_query.terms_include, 1, <<>>)
             exclude_results == ExcludeLoop(index, search_query.terms_exclude, 1, <<>>)
         IN SelectSeq(include_results,
                      LAMBDA id : id \notin SeqToSet(exclude_results))
    ELSE search_query.uuids

\* search_structured
search_structured(index, search_query) ==
    LET include_results == candidates(index, search_query)
        terms == SeqToSet(search_query.terms_include)
        found == [i \in 1..Len(include_results) |-> [term \in terms |->
                    get_term_positions(index, include_results[i], term)]]
    IN IF \E i \in 1..Len(found) : \E term \in terms : ~found[i][term].ok
       THEN [status |-> "panic", items |-> <<>>]
       ELSE [status |-> "Ok",
             items |-> [i \in 1..Len(include_results) |->
                          [uuid |-> include_results[i], score |-> None,
                           matches |-> [term \in terms |->
                                           found[i][term].positions]]]]

\* search_index_term that returns Ok with no results
search_index_term_empty(index, term) ==
    LET rows == SelectSeq(index, LAMBDA row : row.term = term) IN
    IF \E i \in 1..Len(rows) : positions_to_u64(rows[i].positions) = None
    THEN [status |-> "panic", results |-> <<>>]
    ELSE [status |-> "Ok",
          results |-> [i \in 1..Len(rows) |->
                         <<rows[i].uuid, positions_to_u64(rows[i].positions)[1]>>]]

\* search_index_term: the rows of the term, each with its positions parsed
\* (a field that does not parse panics in expect); SearchNoMatches when
\* there is no row
search_index_term(index, term) ==
    LET rows == SelectSeq(index, LAMBDA row : row.term = term) IN
    IF \E i \in 1..Len(rows) : positions_to_u64(rows[i].positions) = None
    THEN [status |-> "panic", results |-> <<>>]
    ELSE IF rows = <<>> THEN [status |-> "SearchNoMatches", results |-> <<>>]
    ELSE [status |-> "Ok",
          results |-> [i \in 1..Len(rows) |->
                         <<rows[i].uuid, positions_to_u64(rows[i].positions)[1]>>]]

-----------------------------------------------------------------------------
(* State shared by the specifications *)

Uuids == {"u1", "u2"}

\* a Snip as get_from_uuid, from_file and the add command build it
NewSnip(uuid, name, text, timestamp) ==
    [uuid |-> uuid, name |-> name, text |-> text, timestamp |-> timestamp,
     analysis |-> [words |-> <<>>], attachments |-> <<>>]

NoSnip == NewSnip("", "", <<>>, 0)
NoQuery == [terms_include |-> <<>>, terms_exclude |-> <<>>, uuids |-> <<>>]
NoResult == [status |-> "none", items |-> <<>>]
NoContext == [called |-> FALSE, position |-> 0, count |-> 0, out |-> <<>>]
NoLookup == [op |-> "none", input |-> <<>>, output |-> <<>>]
\* no search_structured runs on a second connection
NoEvaluation ==
    [pc |-> "none", search_query |-> NoQuery, i |-> 0, include_results |-> <<>>,
     exclude_results |-> <<>>, matches |-> <<>>, items |-> <<>>]

-----------------------------------------------------------------------------
(* Analysis of one document: analyze() and the context window *)

InitAnalyze ==
    /\ s \in {NewSnip("u1", "n1", text, 0) : text \in Strings(Alphabet, MaxLen)}
    /\ analyzed = 0
    /\ context = NoContext
    /\ snip = <<>>
    /\ snip_index_rs = <<>>
    /\ pc = "idle"
    /\ cmd = "none"
    /\ todo = <<>>
    /\ terms_positions = <<>>
    /\ calls = 0
    /\ rows_before = <<>>
    /\ query = NoQuery
    /\ result = NoResult
    /\ lookup = NoLookup
    /\ snip_attachment = <<>>
    /\ index_before = <<>>
    /\ failures = 0
    /\ evaluation = NoEvaluation

\* the caller runs s.analyze()
Analyze ==
    /\ analyzed < MaxAnalyze
    /\ s' = analyze(s)
    /\ analyzed' = analyzed + 1
    /\ context' = NoContext
    /\ UNCHANGED <<snip, snip_index_rs, pc, cmd, todo, terms_positions, calls,
                   rows_before, query, result,
                   lookup, snip_attachment, index_before, failures, evaluation>>

\* the caller runs s.analysis.get_term_context_positions(position, count)
GetTermContextPositions(position, count) ==
    /\ analyzed >= 1
    /\ context' = [called |-> TRUE, position |-> position, count |-> count,
                   out |-> get_term_context_positions(s.analysis.words,
                                                      position, count)]
    /\ UNCHANGED <<snip, snip_index_rs, s, pc, cmd, todo, terms_positions,
                   calls, rows_before, analyzed, query, result,
                   lookup, snip_attachment, index_before, failures, evaluation>>

NextAnalyze ==
    \/ Analyze
    \/ \E position \in 0..Len(s.analysis.words), count \in 0..MaxContext :
          GetTermContextPositions(position, count)

SpecAnalyze == InitAnalyze /\ [][NextAnalyze]_vars

-----------------------------------------------------------------------------
(* The document store: the commands that write and search the index *)

\* the texts of stored documents: words separated by one space
DocWords == {<<"A">>, <<"a", "a", "s">>}
DocTexts == {Join(ws, <<" ">>) : ws \in Strings(DocWords, MaxWords)}
Names == {<<"n">>}
Timestamps == {1}
\* the stems of DocWords, as query terms
Terms == {<<"a">>, <<"a", "a">>}
Queries ==
    [terms_include : Strings(Terms, MaxInclude),
     terms_exclude : Strings(Terms, MaxExclude),
     uuids : Strings(Uuids, MaxUuids)]

RowsOf(index, uuid) == SelectSeq(index, LAMBDA row : row.uuid = uuid)
Stored(uuid) == \E i \in 1..Len(snip) : snip[i].uuid = uuid
\* get_from_uuid: the first row of the uuid
get_from_uuid(uuid) ==
    snip_from_db(snip[CHOOSE i \in 1..Len(snip) :
                        snip[i].uuid = uuid /\ \A j \in 1..(i - 1) : snip[j].uuid # uuid])

Init ==
    /\ snip = <<>>
    /\ snip_index_rs = <<>>
    /\ s = NoSnip
    /\ pc = "idle"
    /\ cmd = "none"
    /\ todo = <<>>
    /\ terms_positions = <<>>
    /\ calls = 0
    /\ rows_before = <<>>
    /\ analyzed = 0
    /\ query = NoQuery
    /\ result = NoResult
    /\ context = NoContext
    /\ lookup = NoLookup
    /\ snip_attachment = <<>>
    /\ index_before = <<>>
    /\ failures = 0
    /\ evaluation = NoEvaluation

\* the add command: Snip::insert of a new document, then s.index(); the
\* timestamp is written as a string
Add(uuid, name, text, timestamp) ==
    /\ pc = "idle"
    /\ ~Stored(uuid)
    /\ snip' = Append(snip, [uuid |-> uuid, timestamp |-> to_rfc3339(timestamp),
                             name |-> name, text |-> text])
    /\ s' = NewSnip(uuid, name, text, timestamp)
    /\ pc' = "index"
    /\ cmd' = "add"
    /\ calls' = 1
    /\ UNCHANGED <<snip_index_rs, todo, terms_positions, rows_before, analyzed,
                   query, result, context,
                   lookup, snip_attachment, index_before, failures, evaluation>>

\* the update command: Snip::update of the one row of the uuid, then
\* get_from_uuid and s.index().  Snip::update of a uuid that is not stored
\* returns an error and changes nothing.
Update(uuid, name, text, timestamp) ==
    /\ pc = "idle"
    /\ Cardinality({i \in 1..Len(snip) : snip[i].uuid = uuid}) = 1
    /\ snip' = [i \in 1..Len(snip) |->
                  IF snip[i].uuid = uuid
                  THEN [uuid |-> uuid, timestamp |-> to_rfc3339(timestamp),
                        name |-> name, text |-> text]
                  ELSE snip[i]]
    /\ s' = NewSnip(uuid, name, text, timestamp)
    /\ pc' = "index"
    /\ cmd' = "update"
    /\ calls' = 1
    /\ UNCHANGED <<snip_index_rs, todo, terms_positions, rows_before, analyzed,
                   query, result, context,
                   lookup, snip_attachment, index_before, failures, evaluation>>

\* a caller of the library: get_from_uuid, then s.index()
IndexDoc(uuid) ==
    /\ pc = "idle"
    /\ Stored(uuid)
    /\ s' = get_from_uuid(uuid)
    /\ pc' = "index"
    /\ cmd' = "index"
    /\ calls' = 1
    /\ UNCHANGED <<snip, snip_index_rs, todo, terms_positions, rows_before,
                   analyzed, query, result, context,
                   lookup, snip_attachment, index_before, failures, evaluation>>

\* Snip::index up to the delete: analyze when there are no words, group
\* the ordinals by stem
IndexPrepare ==
    /\ pc = "index"
    /\ LET sn == ensure_analyzed(s) IN
        /\ s' = sn
        /\ terms_positions' = group_positions(sn.analysis.words)
    /\ rows_before' = RowsOf(snip_index_rs, s.uuid)
    /\ pc' = "drop"
    /\ UNCHANGED <<snip, snip_index_rs, cmd, todo, calls, analyzed, query,
                   result, context,
                   lookup, snip_attachment, index_before, failures, evaluation>>

\* Snip::index: self.drop_word_indices(conn)
IndexDrop ==
    /\ pc = "drop"
    /\ snip_index_rs' = drop_word_indices(snip_index_rs, s.uuid)
    /\ pc' = "write"
    /\ UNCHANGED <<snip, s, cmd, todo, terms_positions, calls, rows_before,
                   analyzed, query, result, context,
                   lookup, snip_attachment, index_before, failures,
                   evaluation>>

\* Snip::index: one turn of the loop over terms_positions, a HashMap, so
\* in any order
IndexWrite ==
    /\ pc = "write"
    /\ \E term \in DOMAIN terms_positions :
        /\ snip_index_rs' = write_word_index(snip_index_rs, s.uuid,
                                word_index(term, terms_positions[term]))
        /\ terms_positions' = [t \in (DOMAIN terms_positions) \ {term} |->
                                  terms_positions[t]]
    /\ UNCHANGED <<snip, s, pc, cmd, todo, calls, rows_before, analyzed, query,
                   result, context,
                   lookup, snip_attachment, index_before, failures,
                   evaluation>>

\* Snip::index returns Ok(())
IndexReturn ==
    /\ pc = "write"
    /\ DOMAIN terms_positions = {}
    /\ terms_positions' = <<>>
    /\ pc' = "returned"
    /\ UNCHANGED <<snip, snip_index_rs, s, cmd, todo, calls, rows_before,
                   analyzed, query, result, context,
                   lookup, snip_attachment, index_before, failures, evaluation>>

\* the caller calls s.index() once more on the same Snip
IndexAgain ==
    /\ pc = "returned"
    /\ cmd = "index"
    /\ calls < MaxIndexCalls
    /\ calls' = calls + 1
    /\ pc' = "index"
    /\ UNCHANGED <<snip, snip_index_rs, s, cmd, todo, terms_positions,
                   rows_before, analyzed, query, result, context,
                   lookup, snip_attachment, index_before, failures, evaluation>>

\* the command ends and drops its Snip
Finish ==
    /\ pc = "returned"
    /\ cmd \in {"add", "import", "update", "index"}
    /\ pc' = "idle"
    /\ cmd' = "none"
    /\ s' = NoSnip
    /\ calls' = 0
    /\ rows_before' = <<>>
    /\ UNCHANGED <<snip, snip_index_rs, todo, terms_positions, analyzed, query,
                   result, context,
                   lookup, snip_attachment, index_before, failures, evaluation>>

\* index_all_items: clear_index, then SELECT ... FROM snip
IndexAllStart ==
    /\ pc = "idle"
    /\ snip_index_rs' = clear_index(snip_index_rs)
    /\ todo' = snip
    /\ pc' = "all"
    /\ cmd' = "index_all"
    /\ index_before' = snip_index_rs
    /\ UNCHANGED <<snip, s, terms_positions, calls, rows_before, analyzed,
                   query, result, context, lookup, snip_attachment, failures,
                   evaluation>>

\* index_all_items: the next row: snip_from_db, s.analyze(), s.index(conn)
IndexAllNext ==
    /\ pc = "all"
    /\ todo # <<>>
    /\ s' = analyze(snip_from_db(Head(todo)))
    /\ analyzed' = 1
    /\ todo' = Tail(todo)
    /\ calls' = 1
    /\ pc' = "index"
    /\ UNCHANGED <<snip, snip_index_rs, cmd, terms_positions, rows_before,
                   query, result, context,
                   lookup, snip_attachment, index_before, failures, evaluation>>

\* index_all_items: s.index(conn) returned for this row
IndexAllContinue ==
    /\ pc = "returned"
    /\ cmd = "index_all"
    /\ pc' = "all"
    /\ UNCHANGED <<snip, snip_index_rs, s, cmd, todo, terms_positions, calls,
                   rows_before, analyzed, query, result, context,
                   lookup, snip_attachment, index_before, failures, evaluation>>

\* index_all_items returns Ok(())
IndexAllDone ==
    /\ pc = "all"
    /\ todo = <<>>
    /\ pc' = "idle"
    /\ cmd' = "none"
    /\ s' = NoSnip
    /\ calls' = 0
    /\ analyzed' = 0
    /\ rows_before' = <<>>
    /\ index_before' = <<>>
    /\ UNCHANGED <<snip, snip_index_rs, todo, terms_positions, query, result,
                   context, lookup, snip_attachment, failures, evaluation>>

\* search_structured(conn, search_query)
Search(search_query) ==
    /\ pc = "idle"
    /\ query' = search_query
    /\ result' = search_structured(snip_index_rs, search_query)
    /\ pc' = "searched"
    /\ UNCHANGED <<snip, snip_index_rs, s, cmd, todo, terms_positions, calls,
                   rows_before, analyzed, context,
                   lookup, snip_attachment, index_before, failures, evaluation>>

\* search_index_term(conn, term)
SearchIndexTerm(term) ==
    /\ pc = "idle"
    /\ lookup' = [op |-> "search_index_term", input |-> term,
                  output |-> search_index_term(snip_index_rs, term)]
    /\ pc' = "searched"
    /\ UNCHANGED <<snip, snip_index_rs, s, cmd, todo, terms_positions, calls,
                   rows_before, analyzed, query, result, context,
                   snip_attachment, index_before, failures, evaluation>>

\* the caller is done with the result
SearchReturn ==
    /\ pc = "searched"
    /\ query' = NoQuery
    /\ result' = NoResult
    /\ lookup' = NoLookup
    /\ pc' = "idle"
    /\ UNCHANGED <<snip, snip_index_rs, s, cmd, todo, terms_positions, calls,
                   rows_before, analyzed, context, snip_attachment,
                   index_before, failures, evaluation>>

Next ==
    \/ \E uuid \in Uuids, name \in Names, text \in DocTexts, timestamp \in Timestamps :
          Add(uuid, name, text, timestamp)
    \/ \E uuid \in Uuids, name \in Names, text \in DocTexts, timestamp \in Timestamps :
          Update(uuid, name, text, timestamp)
    \/ \E uuid \in Uuids : IndexDoc(uuid)
    \/ IndexPrepare
    \/ IndexDrop
    \/ IndexWrite
    \/ IndexReturn
    \/ IndexAgain
    \/ Finish
    \/ IndexAllStart
    \/ IndexAllNext
    \/ IndexAllContinue
    \/ IndexAllDone
    \/ \E search_query \in Queries : Search(search_query)
    \/ \E term \in Terms : SearchIndexTerm(term)
    \/ SearchReturn

Spec == Init /\ [][Next]_vars

-----------------------------------------------------------------------------
(* The document store with attachments: add, Snip::update, remove_snip *)

StoreNames == {<<"n">>, <<"m">>}
StoreTexts == {<<"A">>, <<"a", "a", "s">>}
\* one nanosecond, and a second and a half
StoreTimestamps == {1, 1500000000}
AttachmentUuids == {"t1", "t2"}

\* the attach add command for one file: get_from_uuid verifies the
\* document, add_attachment inserts a row with a new uuid
AttachAdd(uuid, snip_uuid) ==
    /\ pc = "idle"
    /\ Stored(snip_uuid)
    /\ \A i \in 1..Len(snip_attachment) : snip_attachment[i].uuid # uuid
    /\ snip_attachment' = Append(snip_attachment,
                                 [uuid |-> uuid, snip_uuid |-> snip_uuid])
    /\ UNCHANGED <<snip, snip_index_rs, s, pc, cmd, todo, terms_positions,
                   calls, rows_before, analyzed, query, result, context,
                   lookup, index_before, failures, evaluation>>

\* Attachment::remove: DELETE FROM snip_attachment WHERE uuid = :uuid
attachment_remove(attachments, uuid) ==
    SelectSeq(attachments, LAMBDA row : row.uuid # uuid)

\* the attach rm command for one attachment
AttachRemove(uuid) ==
    /\ pc = "idle"
    /\ \E i \in 1..Len(snip_attachment) : snip_attachment[i].uuid = uuid
    /\ snip_attachment' = attachment_remove(snip_attachment, uuid)
    /\ UNCHANGED <<snip, snip_index_rs, s, pc, cmd, todo, terms_positions,
                   calls, rows_before, analyzed, query, result, context,
                   lookup, index_before, failures, evaluation>>

\* collect_attachments that finds none
collect_attachments_none(sn, attachments) == [sn EXCEPT !.attachments = <<>>]

\* Snip::collect_attachments: SELECT uuid FROM snip_attachment WHERE
\* snip_uuid = :snip_uuid
collect_attachments(sn, attachments) ==
    LET rows == SelectSeq(attachments, LAMBDA row : row.snip_uuid = sn.uuid)
    IN [sn EXCEPT !.attachments = [i \in 1..Len(rows) |-> rows[i].uuid]]

RECURSIVE RemoveAttachments(_, _)
\* remove_snip: for a in &s.attachments { a.remove(conn)?; }
RemoveAttachments(attachments, uuids) ==
    IF uuids = <<>> THEN attachments
    ELSE RemoveAttachments(attachment_remove(attachments, Head(uuids)), Tail(uuids))

\* remove_snip(conn, id): UuidNotFound from get_from_uuid when the id is
\* not stored; else the attachments, the index rows and the document are
\* deleted, and the result is Ok when one row of snip was deleted
RemoveSnip(id) ==
    /\ pc = "idle"
    /\ IF Stored(id)
       THEN LET sn == collect_attachments(get_from_uuid(id), snip_attachment)
                n == Cardinality({i \in 1..Len(snip) : snip[i].uuid = id})
            IN /\ s' = sn
               /\ rows_before' = RowsOf(snip_index_rs, id)
               /\ snip_attachment' = RemoveAttachments(snip_attachment, sn.attachments)
               /\ snip_index_rs' = drop_word_indices(snip_index_rs, id)
               /\ snip' = SelectSeq(snip, LAMBDA row : row.uuid # id)
               /\ lookup' = [op |-> "remove_snip", input |-> id,
                             output |-> IF n = 1 THEN "Ok" ELSE "General"]
       ELSE /\ lookup' = [op |-> "remove_snip", input |-> id,
                          output |-> "UuidNotFound"]
            /\ UNCHANGED <<snip, snip_index_rs, snip_attachment, s, rows_before>>
    /\ pc' = "removed"
    /\ UNCHANGED <<cmd, todo, terms_positions, calls, analyzed, query, result,
                   context, index_before, failures, evaluation>>

\* the caller is done with the result of remove_snip
RemoveReturn ==
    /\ pc = "removed"
    /\ pc' = "idle"
    /\ s' = NoSnip
    /\ rows_before' = <<>>
    /\ lookup' = NoLookup
    /\ UNCHANGED <<snip, snip_index_rs, snip_attachment, cmd, todo,
                   terms_positions, calls, analyzed, query, result, context,
                   index_before, failures, evaluation>>

\* Snip::update of a Snip built by the caller: every row of the uuid is
\* written, and the result is Ok when one row was
SnipUpdate(uuid, name, text, timestamp) ==
    /\ pc = "idle"
    /\ snip' = [i \in 1..Len(snip) |->
                  IF snip[i].uuid = uuid
                  THEN [uuid |-> uuid, timestamp |-> to_rfc3339(timestamp),
                        name |-> name, text |-> text]
                  ELSE snip[i]]
    /\ s' = NewSnip(uuid, name, text, timestamp)
    /\ lookup' = [op |-> "update", input |-> uuid,
                  output |-> IF Cardinality({i \in 1..Len(snip) :
                                               snip[i].uuid = uuid}) = 1
                             THEN "Ok" ELSE "General"]
    /\ pc' = "updated"
    /\ UNCHANGED <<snip_index_rs, snip_attachment, rows_before, cmd, todo,
                   terms_positions, calls, analyzed, query, result, context,
                   index_before, failures, evaluation>>

\* the caller is done with the result of Snip::update
UpdateReturn ==
    /\ pc = "updated"
    /\ pc' = "idle"
    /\ s' = NoSnip
    /\ lookup' = NoLookup
    /\ UNCHANGED <<snip, snip_index_rs, snip_attachment, rows_before, cmd,
                   todo, terms_positions, calls, analyzed, query, result,
                   context, index_before, failures, evaluation>>

NextStore ==
    \/ \E uuid \in Uuids, name \in StoreNames, text \in StoreTexts,
          timestamp \in StoreTimestamps : Add(uuid, name, text, timestamp)
    \/ IndexPrepare
    \/ IndexDrop
    \/ IndexWrite
    \/ IndexReturn
    \/ Finish
    \/ \E uuid \in AttachmentUuids, snip_uuid \in Uuids : AttachAdd(uuid, snip_uuid)
    \/ \E uuid \in AttachmentUuids : AttachRemove(uuid)
    \/ \E uuid \in Uuids, name \in StoreNames, text \in StoreTexts,
          timestamp \in StoreTimestamps : SnipUpdate(uuid, name, text, timestamp)
    \/ UpdateReturn
    \/ \E id \in Uuids : RemoveSnip(id)
    \/ RemoveReturn

SpecStore == Init /\ [][NextStore]_vars

-----------------------------------------------------------------------------
(* The document store when a statement of Snip::index can fail *)

\* the texts written here: one stem, another stem, both stems
FailTexts == {<<"A">>, <<"a", "a", "s">>, <<"A", " ", "a", "a", "s">>}

\* Snip::index: self.drop_word_indices(conn)? returns the error of
\* prepare or execute; the DELETE has removed nothing
IndexDropFail ==
    /\ pc = "drop"
    /\ failures < MaxFailures
    /\ failures' = failures + 1
    /\ terms_positions' = <<>>
    /\ pc' = "failed"
    /\ UNCHANGED <<snip, snip_index_rs, s, cmd, todo, calls, rows_before,
                   analyzed, query, result, context, lookup, snip_attachment,
                   index_before, evaluation>>

\* Snip::index: self.write_word_index(conn, index)? returns the error of
\* prepare or execute for the next entry of terms_positions; the rows
\* written by the earlier turns of the loop stay
IndexWriteFail ==
    /\ pc = "write"
    /\ DOMAIN terms_positions # {}
    /\ failures < MaxFailures
    /\ failures' = failures + 1
    /\ terms_positions' = <<>>
    /\ pc' = "failed"
    /\ UNCHANGED <<snip, snip_index_rs, s, cmd, todo, calls, rows_before,
                   analyzed, query, result, context, lookup, snip_attachment,
                   index_before, evaluation>>

\* the error of index() is returned with ? by every caller (the commands of
\* main, index_all_items): the command ends
Abort ==
    /\ pc = "failed"
    /\ pc' = "idle"
    /\ cmd' = "none"
    /\ s' = NoSnip
    /\ todo' = <<>>
    /\ calls' = 0
    /\ analyzed' = 0
    /\ rows_before' = <<>>
    /\ index_before' = <<>>
    /\ UNCHANGED <<snip, snip_index_rs, terms_positions, query, result,
                   context, lookup, snip_attachment, failures, evaluation>>

NextFail ==
    \/ \E uuid \in Uuids, name \in Names, text \in FailTexts, timestamp \in Timestamps :
          Add(uuid, name, text, timestamp)
    \/ \E uuid \in Uuids, name \in Names, text \in FailTexts, timestamp \in Timestamps :
          Update(uuid, name, text, timestamp)
    \/ \E uuid \in Uuids : IndexDoc(uuid)
    \/ IndexPrepare
    \/ IndexDrop
    \/ IndexDropFail
    \/ IndexWrite
    \/ IndexWriteFail
    \/ IndexReturn
    \/ IndexAgain
    \/ Finish
    \/ Abort
    \/ IndexAllStart
    \/ IndexAllNext
    \/ IndexAllContinue
    \/ IndexAllDone

SpecFail == Init /\ [][NextFail]_vars

-----------------------------------------------------------------------------
(* Searches of an index table that holds rows index() did not write *)

\* positions strings: one position, two positions, the empty string, a
\* field that is not a number
StoredPositions ==
    {<<"0">>, <<"0", ",", "1">>, <<>>, <<"0", ",", "x">>}
StoredRows ==
    [term : Terms, uuid : Uuids, count : {1}, positions : StoredPositions]

InitCorrupt ==
    /\ snip_index_rs \in Strings(StoredRows, MaxRows)
    /\ snip = <<>>
    /\ snip_attachment = <<>>
    /\ s = NoSnip
    /\ pc = "idle"
    /\ cmd = "none"
    /\ todo = <<>>
    /\ terms_positions = <<>>
    /\ calls = 0
    /\ rows_before = <<>>
    /\ analyzed = 0
    /\ query = NoQuery
    /\ result = NoResult
    /\ context = NoContext
    /\ lookup = NoLookup
    /\ index_before = <<>>
    /\ failures = 0
    /\ evaluation = NoEvaluation

NextCorrupt ==
    \/ \E search_query \in Queries : Search(search_query)
    \/ \E term \in Terms : SearchIndexTerm(term)
    \/ SearchReturn

SpecCorrupt == InitCorrupt /\ [][NextCorrupt]_vars

-----------------------------------------------------------------------------
(* The functions that only read: each call is recorded in lookup *)

PositionLists == Strings(0..MaxPosition, MaxPositions)

InitLookup ==
    /\ snip = <<>>
    /\ snip_attachment = <<>>
    /\ snip_index_rs = <<>>
    /\ s = NoSnip
    /\ pc = "idle"
    /\ cmd = "none"
    /\ todo = <<>>
    /\ terms_positions = <<>>
    /\ calls = 0
    /\ rows_before = <<>>
    /\ analyzed = 0
    /\ query = NoQuery
    /\ result = NoResult
    /\ context = NoContext
    /\ lookup = NoLookup
    /\ index_before = <<>>
    /\ failures = 0
    /\ evaluation = NoEvaluation

\* WordIndex::positions_to_u64(word.positions_to_string())
PositionsRoundTrip(positions) ==
    /\ lookup' = [op |-> "positions", input |-> positions,
                  output |-> positions_to_u64(positions_to_string(positions))]
    /\ UNCHANGED <<snip, snip_index_rs, s, pc, cmd, todo, terms_positions,
                   calls, rows_before, analyzed, query, result, context,
                   snip_attachment, index_before, failures, evaluation>>

\* the words with apostrophes that the tokenizer keeps whole
WordChars == Letters \cup MidLetters
SearchWords ==
    {w \in Strings(WordChars, MaxWordLen) :
        unicode_word_indices(w) = <<[offset |-> 0, word |-> w]>>}

\* the search command stems the word with stem_vec; a document whose text
\* is the word is analyzed by split_words and stem_words
StemWord(w) ==
    /\ lookup' = [op |-> "stem", input |-> w,
                  output |-> [query |-> stem_vec(<<w>>)[1],
                              index |-> stem_words(split_words(
                                  NewSnip("u1", <<"n">>, w, 1))).analysis.words[1].stem]]
    /\ UNCHANGED <<snip, snip_index_rs, s, pc, cmd, todo, terms_positions,
                   calls, rows_before, analyzed, query, result, context,
                   snip_attachment, index_before, failures, evaluation>>

\* the graphemes of the words and texts given to find_by_graph; the word
\* is not empty (word_graphs[0] of an empty word is out of bounds)
Graphemes == {"a", "b"}
GraphWords == Strings(Graphemes, MaxGraphWord) \ {<<>>}
GraphTexts == Strings(Graphemes, MaxGraphText)

RECURSIVE FindByGraphLoop(_, _, _, _, _)
\* find_by_graph, the loop over text from index i on: cur is the number
\* of graphemes of word matched so far and match_buf holds them
FindByGraphLoop(word, text, i, cur, match_buf) ==
    IF i >= Len(text) THEN None
    ELSE IF text[i + 1] = word[cur + 1]
         THEN IF Append(match_buf, text[i + 1]) = word
              THEN Some(i - cur)
              ELSE FindByGraphLoop(word, text, i + 1, cur + 1,
                                   Append(match_buf, text[i + 1]))
         ELSE FindByGraphLoop(word, text, i + 1, 0, <<>>)

\* find_by_graph(word, text)
find_by_graph(word, text) == FindByGraphLoop(word, text, 0, 0, <<>>)

\* a call of find_by_graph
FindByGraph(word, text) ==
    /\ lookup' = [op |-> "find_by_graph", input |-> [word |-> word, text |-> text],
                  output |-> find_by_graph(word, text)]
    /\ UNCHANGED <<snip, snip_index_rs, s, pc, cmd, todo, terms_positions,
                   calls, rows_before, analyzed, query, result, context,
                   snip_attachment, index_before, failures, evaluation>>

NextLookup ==
    \/ \E positions \in PositionLists : PositionsRoundTrip(positions)
    \/ \E w \in SearchWords : StemWord(w)
    \/ \E word \in GraphWords, text \in GraphTexts : FindByGraph(word, text)

SpecLookup == InitLookup /\ [][NextLookup]_vars

-----------------------------------------------------------------------------
(* Resolution of a partial uuid: search_uuid and search_attachment_uuid *)

\* the characters of a uuid string, and those of a partial typed by a user
IdChars == {"a", "b"}
PartialChars == IdChars \cup {"A", "_", "%"}
Ids == [1..IdLen -> IdChars]
Partials == Strings(PartialChars, MaxPartial)

RECURSIVE Like(_, _)
\* the LIKE operator of SQLite: % is any run of characters, _ any one
\* character, and a letter matches in either case
Like(pattern, str) ==
    IF pattern = <<>> THEN str = <<>>
    ELSE IF Head(pattern) = "%"
         THEN \E k \in 0..Len(str) :
                 Like(Tail(pattern), SubSeq(str, k + 1, Len(str)))
    ELSE /\ str # <<>>
         /\ \/ Head(pattern) = "_"
            \/ ToLowercase(<<Head(pattern)>>) = ToLowercase(<<Head(str)>>)
         /\ Like(Tail(pattern), Tail(str))

\* SELECT uuid FROM table WHERE uuid LIKE :id LIMIT 2, :id being the
\* partial between two %
SelectLike(table, id_partial) ==
    LET rows == SelectSeq(table, LAMBDA row :
                    Like(<<"%">> \o id_partial \o <<"%">>, row.uuid))
    IN [i \in 1..(IF Len(rows) > 2 THEN 2 ELSE Len(rows)) |-> rows[i].uuid]

\* search_uuid that returns the first match when there are two
search_uuid_first(table, id_partial) ==
    LET rows == SelectLike(table, id_partial) IN
    IF rows # <<>> /\ rows[1] # <<>> THEN [status |-> "Ok", uuid |-> rows[1]]
    ELSE [status |-> "UuidNotFound", uuid |-> <<>>]

\* search_uuid: the loop over the rows returns UuidMultipleMatches at the
\* second row; the one uuid found is parsed and returned
search_uuid(table, id_partial) ==
    LET rows == SelectLike(table, id_partial) IN
    IF Len(rows) >= 2 THEN [status |-> "UuidMultipleMatches", uuid |-> <<>>]
    ELSE IF rows # <<>> /\ rows[1] # <<>> THEN [status |-> "Ok", uuid |-> rows[1]]
    ELSE [status |-> "UuidNotFound", uuid |-> <<>>]

\* search_attachment_uuid: the same loop over snip_attachment
search_attachment_uuid(table, id_partial) ==
    LET rows == SelectLike(table, id_partial) IN
    IF Len(rows) >= 2 THEN [status |-> "UuidMultipleMatches", uuid |-> <<>>]
    ELSE IF rows # <<>> /\ rows[1] # <<>> THEN [status |-> "Ok", uuid |-> rows[1]]
    ELSE [status |-> "UuidNotFound", uuid |-> <<>>]

\* the sequences of at most n different ids
IdLists(n) ==
    {ids \in Strings(Ids, n) :
        \A i, j \in 1..Len(ids) : i # j => ids[i] # ids[j]}

\* a database of documents without text and of attachments of the first
\* document
InitUuid ==
    /\ snip \in {[i \in 1..Len(ids) |->
                    [uuid |-> ids[i], timestamp |-> to_rfc3339(1),
                     name |-> <<"n">>, text |-> <<>>]] : ids \in IdLists(MaxStored)}
    /\ snip_attachment \in
          {[i \in 1..Len(ids) |-> [uuid |-> ids[i], snip_uuid |-> snip[1].uuid]] :
              ids \in IF snip = <<>> THEN {<<>>} ELSE IdLists(MaxStored)}
    /\ snip_index_rs = <<>>
    /\ s = NoSnip
    /\ pc = "idle"
    /\ cmd = "none"
    /\ todo = <<>>
    /\ terms_positions = <<>>
    /\ calls = 0
    /\ rows_before = <<>>
    /\ analyzed = 0
    /\ query = NoQuery
    /\ result = NoResult
    /\ context = NoContext
    /\ lookup = NoLookup
    /\ index_before = <<>>
    /\ failures = 0
    /\ evaluation = NoEvaluation

\* search_uuid(conn, id_partial)
SearchUuid(id_partial) ==
    /\ pc = "idle"
    /\ lookup' = [op |-> "search_uuid", input |-> id_partial,
                  output |-> search_uuid(snip, id_partial)]
    /\ pc' = "found"
    /\ UNCHANGED <<snip, snip_index_rs, s, cmd, todo, terms_positions, calls,
                   rows_before, analyzed, query, result, context,
                   snip_attachment, index_before, failures, evaluation>>

\* search_attachment_uuid(conn, id_partial)
SearchAttachmentUuid(id_partial) ==
    /\ pc = "idle"
    /\ lookup' = [op |-> "search_attachment_uuid", input |-> id_partial,
                  output |-> search_attachment_uuid(snip_attachment, id_partial)]
    /\ pc' = "found"
    /\ UNCHANGED <<snip, snip_index_rs, s, cmd, todo, terms_positions, calls,
                   rows_before, analyzed, query, result, context,
                   snip_attachment, index_before, failures, evaluation>>

\* the caller is done with the uuid or the error
SearchUuidReturn ==
    /\ pc = "found"
    /\ lookup' = NoLookup
    /\ pc' = "idle"
    /\ UNCHANGED <<snip, snip_index_rs, s, cmd, todo, terms_positions, calls,
                   rows_before, analyzed, query, result, context,
                   snip_attachment, index_before, failures, evaluation>>

NextUuid ==
    \/ \E id_partial \in Partials : SearchUuid(id_partial)
    \/ \E id_partial \in Partials : SearchAttachmentUuid(id_partial)
    \/ SearchUuidReturn

SpecUuid == InitUuid /\ [][NextUuid]_vars

-----------------------------------------------------------------------------
(* The commands of main: add, import, update, rename, rm, index, attach *)

\* the uuids of the documents of the commands, which share a character,
\* and the partial uuids typed by the user: the first matches one of the
\* uuids, the second matches both
CliUuids == {<<"a", "b">>, <<"b", "b">>}
CliPartials == {<<"a">>, <<"b">>}
\* the uuid of the attachment of the commands
CliAttachmentUuids == {"t1"}

\* Snip::update that writes every row of the table
snip_update_all(table, sn) ==
    [i \in 1..Len(table) |->
        [uuid |-> table[i].uuid, timestamp |-> to_rfc3339(sn.timestamp),
         name |-> sn.name, text |-> sn.text]]

\* Snip::update, the statement: UPDATE snip SET (data, timestamp, name) =
\* (:data, :timestamp, :name) WHERE uuid = :uuid
snip_update(table, sn) ==
    [i \in 1..Len(table) |->
        IF table[i].uuid = sn.uuid
        THEN [uuid |-> sn.uuid, timestamp |-> to_rfc3339(sn.timestamp),
              name |-> sn.name, text |-> sn.text]
        ELSE table[i]]

\* the number of rows of a uuid, which an UPDATE or DELETE of the uuid
\* reports as affected
rows_affected(table, uuid) ==
    Cardinality({i \in 1..Len(table) : table[i].uuid = uuid})

\* uuid_list(conn, None): SELECT uuid FROM snip ORDER BY datetime(timestamp)
\* DESC; the documents of the commands share one timestamp
uuid_list(table) == [i \in 1..Len(table) |-> table[i].uuid]

\* the import command for one file: from_file, then Snip::insert and
\* s.index(); a file whose uuid is stored is refused and nothing is written
Import(uuid, name, text, timestamp) ==
    /\ pc = "idle"
    /\ ~Stored(uuid)
    /\ snip' = Append(snip, [uuid |-> uuid, timestamp |-> to_rfc3339(timestamp),
                             name |-> name, text |-> text])
    /\ s' = NewSnip(uuid, name, text, timestamp)
    /\ pc' = "index"
    /\ cmd' = "import"
    /\ calls' = 1
    /\ UNCHANGED <<snip_index_rs, todo, terms_positions, rows_before, analyzed,
                   query, result, context,
                   lookup, snip_attachment, index_before, failures, evaluation>>

\* the rename command: search_uuid, get_from_uuid, s.name = name,
\* s.update(); an error of search_uuid ends the command
Rename(id_partial, name) ==
    /\ pc = "idle"
    /\ LET found == search_uuid(snip, id_partial) IN
       IF found.status = "Ok"
       THEN LET sn == [get_from_uuid(found.uuid) EXCEPT !.name = name] IN
            /\ s' = sn
            /\ snip' = snip_update(snip, sn)
            /\ lookup' = [op |-> "rename", input |-> id_partial,
                          output |-> IF rows_affected(snip, sn.uuid) = 1
                                     THEN "Ok" ELSE "General"]
       ELSE /\ lookup' = [op |-> "rename", input |-> id_partial,
                          output |-> found.status]
            /\ UNCHANGED <<snip, s>>
    /\ pc' = "renamed"
    /\ cmd' = "rename"
    /\ UNCHANGED <<snip_index_rs, todo, terms_positions, calls, rows_before,
                   analyzed, query, result, context, snip_attachment,
                   index_before, failures, evaluation>>

\* the rename command ends
RenameReturn ==
    /\ pc = "renamed"
    /\ pc' = "idle"
    /\ cmd' = "none"
    /\ s' = NoSnip
    /\ lookup' = NoLookup
    /\ UNCHANGED <<snip, snip_index_rs, todo, terms_positions, calls,
                   rows_before, analyzed, query, result, context,
                   snip_attachment, index_before, failures, evaluation>>

\* the rm command for one id: search_uuid, get_from_uuid, then remove_snip
\* up to its loop: get_from_uuid, s.collect_attachments()
Rm(id_partial) ==
    /\ pc = "idle"
    /\ LET found == search_uuid(snip, id_partial) IN
       IF found.status = "Ok"
       THEN LET sn == collect_attachments(get_from_uuid(found.uuid),
                                          snip_attachment) IN
            /\ s' = sn
            /\ todo' = sn.attachments
            /\ rows_before' = RowsOf(snip_index_rs, found.uuid)
            /\ lookup' = [op |-> "remove_snip", input |-> found.uuid,
                          output |-> "running"]
            /\ pc' = "rm_attachments"
       ELSE /\ lookup' = [op |-> "search_uuid", input |-> id_partial,
                          output |-> found.status]
            /\ pc' = "removed"
            /\ UNCHANGED <<s, todo, rows_before>>
    /\ cmd' = "rm"
    /\ UNCHANGED <<snip, snip_index_rs, terms_positions, calls, analyzed,
                   query, result, context, snip_attachment, index_before,
                   failures, evaluation>>

\* remove_snip: one turn of the loop over s.attachments: a.remove(conn)
RemoveAttachment ==
    /\ pc = "rm_attachments"
    /\ todo # <<>>
    /\ snip_attachment' = attachment_remove(snip_attachment, Head(todo))
    /\ todo' = Tail(todo)
    /\ IF rows_affected(snip_attachment, Head(todo)) = 1
       THEN UNCHANGED <<pc, lookup>>
       ELSE /\ pc' = "removed"
            /\ lookup' = [lookup EXCEPT !.output = "General"]
    /\ UNCHANGED <<snip, snip_index_rs, s, cmd, terms_positions, calls,
                   rows_before, analyzed, query, result, context,
                   index_before, failures, evaluation>>

\* remove_snip: s.drop_word_indices(conn)
RemoveDropIndices ==
    /\ pc = "rm_attachments"
    /\ todo = <<>>
    /\ snip_index_rs' = drop_word_indices(snip_index_rs, s.uuid)
    /\ pc' = "rm_document"
    /\ UNCHANGED <<snip, s, cmd, todo, terms_positions, calls, rows_before,
                   analyzed, query, result, context, lookup, snip_attachment,
                   index_before, failures,
                   evaluation>>

\* remove_snip: DELETE FROM snip WHERE uuid = ?1, Ok when one row was
\* deleted
RemoveDocument ==
    /\ pc = "rm_document"
    /\ snip' = SelectSeq(snip, LAMBDA row : row.uuid # s.uuid)
    /\ lookup' = [lookup EXCEPT !.output = IF rows_affected(snip, s.uuid) = 1
                                           THEN "Ok" ELSE "General"]
    /\ pc' = "removed"
    /\ UNCHANGED <<snip_index_rs, s, cmd, todo, terms_positions, calls,
                   rows_before, analyzed, query, result, context,
                   snip_attachment, index_before, failures, evaluation>>

\* the rm command ends: with the error, or after printing the line of the
\* removed document
RmReturn ==
    /\ pc = "removed"
    /\ cmd = "rm"
    /\ pc' = "idle"
    /\ cmd' = "none"
    /\ s' = NoSnip
    /\ todo' = <<>>
    /\ rows_before' = <<>>
    /\ lookup' = NoLookup
    /\ UNCHANGED <<snip, snip_index_rs, terms_positions, calls, analyzed,
                   query, result, context, snip_attachment, index_before,
                   failures, evaluation>>

\* the index command: create_index_table, clear_index, uuid_list
IndexCmdStart ==
    /\ pc = "idle"
    /\ snip_index_rs' = clear_index(snip_index_rs)
    /\ todo' = uuid_list(snip)
    /\ pc' = "ids"
    /\ cmd' = "index_cmd"
    /\ UNCHANGED <<snip, s, terms_positions, calls, rows_before, analyzed,
                   query, result, context, lookup, snip_attachment,
                   index_before, failures, evaluation>>

\* the index command, the next id: get_from_uuid, s.analyze(), s.index()
IndexCmdNext ==
    /\ pc = "ids"
    /\ todo # <<>>
    /\ s' = analyze(get_from_uuid(Head(todo)))
    /\ analyzed' = 1
    /\ todo' = Tail(todo)
    /\ calls' = 1
    /\ pc' = "index"
    /\ UNCHANGED <<snip, snip_index_rs, cmd, terms_positions, rows_before,
                   query, result, context, lookup, snip_attachment,
                   index_before, failures, evaluation>>

\* the index command: s.index() returned for this id
IndexCmdContinue ==
    /\ pc = "returned"
    /\ cmd = "index_cmd"
    /\ pc' = "ids"
    /\ UNCHANGED <<snip, snip_index_rs, s, cmd, todo, terms_positions, calls,
                   rows_before, analyzed, query, result, context, lookup,
                   snip_attachment, index_before, failures, evaluation>>

\* the index command ends
IndexCmdDone ==
    /\ pc = "ids"
    /\ todo = <<>>
    /\ pc' = "idle"
    /\ cmd' = "none"
    /\ s' = NoSnip
    /\ calls' = 0
    /\ analyzed' = 0
    /\ rows_before' = <<>>
    /\ UNCHANGED <<snip, snip_index_rs, todo, terms_positions, query, result,
                   context, lookup, snip_attachment, index_before, failures,
                   evaluation>>

NextCli ==
    \/ \E uuid \in CliUuids, name \in Names, text \in FailTexts, timestamp \in Timestamps :
          Add(uuid, name, text, timestamp)
    \/ \E uuid \in CliUuids, name \in Names, text \in FailTexts, timestamp \in Timestamps :
          Import(uuid, name, text, timestamp)
    \/ \E uuid \in CliUuids, name \in Names, text \in FailTexts, timestamp \in Timestamps :
          Update(uuid, name, text, timestamp)
    \/ \E id_partial \in CliPartials, name \in StoreNames : Rename(id_partial, name)
    \/ RenameReturn
    \/ \E id_partial \in CliPartials : Rm(id_partial)
    \/ RemoveAttachment
    \/ RemoveDropIndices
    \/ RemoveDocument
    \/ RmReturn
    \/ IndexCmdStart
    \/ IndexCmdNext
    \/ IndexCmdContinue
    \/ IndexCmdDone
    \/ IndexPrepare
    \/ IndexDrop
    \/ IndexWrite
    \/ IndexReturn
    \/ Finish
    \/ \E uuid \in CliAttachmentUuids, snip_uuid \in CliUuids : AttachAdd(uuid, snip_uuid)
    \/ \E uuid \in CliAttachmentUuids : AttachRemove(uuid)

SpecCli == Init /\ [][NextCli]_vars

-----------------------------------------------------------------------------
(* The commands of main when a statement can fail *)

\* remove_snip: a.remove(conn)? returns the error of prepare or execute
\* for the next attachment; the attachments removed by the earlier turns
\* of the loop stay removed
RemoveAttachmentFail ==
    /\ pc = "rm_attachments"
    /\ todo # <<>>
    /\ failures < MaxFailures
    /\ failures' = failures + 1
    /\ lookup' = [lookup EXCEPT !.output = "Error"]
    /\ pc' = "removed"
    /\ UNCHANGED <<snip, snip_index_rs, s, cmd, todo, terms_positions, calls,
                   rows_before, analyzed, query, result, context,
                   snip_attachment, index_before, evaluation>>

\* remove_snip: s.drop_word_indices(conn)? returns the error of prepare or
\* execute; the DELETE has removed nothing
RemoveDropIndicesFail ==
    /\ pc = "rm_attachments"
    /\ todo = <<>>
    /\ failures < MaxFailures
    /\ failures' = failures + 1
    /\ lookup' = [lookup EXCEPT !.output = "Error"]
    /\ pc' = "removed"
    /\ UNCHANGED <<snip, snip_index_rs, s, cmd, todo, terms_positions, calls,
                   rows_before, analyzed, query, result, context,
                   snip_attachment, index_before, evaluation>>

\* remove_snip: the DELETE FROM snip fails: prepare returns its error, an
\* error of execute becomes SnipError::General; no row is deleted
RemoveDocumentFail ==
    /\ pc = "rm_document"
    /\ failures < MaxFailures
    /\ failures' = failures + 1
    /\ lookup' = [lookup EXCEPT !.output = "General"]
    /\ pc' = "removed"
    /\ UNCHANGED <<snip, snip_index_rs, s, cmd, todo, terms_positions, calls,
                   rows_before, analyzed, query, result, context,
                   snip_attachment, index_before, evaluation>>

NextCliFail ==
    \/ \E uuid \in CliUuids, name \in Names, text \in FailTexts, timestamp \in Timestamps :
          Add(uuid, name, text, timestamp)
    \/ \E uuid \in CliUuids, name \in Names, text \in FailTexts, timestamp \in Timestamps :
          Import(uuid, name, text, timestamp)
    \/ \E uuid \in CliUuids, name \in Names, text \in FailTexts, timestamp \in Timestamps :
          Update(uuid, name, text, timestamp)
    \/ \E id_partial \in CliPartials, name \in StoreNames : Rename(id_partial, name)
    \/ RenameReturn
    \/ \E id_partial \in CliPartials : Rm(id_partial)
    \/ RemoveAttachment
    \/ RemoveAttachmentFail
    \/ RemoveDropIndices
    \/ RemoveDropIndicesFail
    \/ RemoveDocument
    \/ RemoveDocumentFail
    \/ RmReturn
    \/ IndexCmdStart
    \/ IndexCmdNext
    \/ IndexCmdContinue
    \/ IndexCmdDone
    \/ IndexAllStart
    \/ IndexAllNext
    \/ IndexAllContinue
    \/ IndexAllDone
    \/ \E uuid \in CliUuids : IndexDoc(uuid)
    \/ IndexPrepare
    \/ IndexDrop
    \/ IndexDropFail
    \/ IndexWrite
    \/ IndexWriteFail
    \/ IndexReturn
    \/ IndexAgain
    \/ Finish
    \/ Abort
    \/ \E uuid \in CliAttachmentUuids, snip_uuid \in CliUuids : AttachAdd(uuid, snip_uuid)
    \/ \E uuid \in CliAttachmentUuids : AttachRemove(uuid)

SpecCliFail == Init /\ [][NextCliFail]_vars

-----------------------------------------------------------------------------
(* The search command of main and the excerpts it prints *)

\* the words typed as terms, and the values of --excerpts
SearchTerms == Strings(DocWords, MaxInclude) \ {<<>>}
ExcerptLimits == {None} \cup {Some(n) : n \in 0..MaxExcerptLimit}

RECURSIVE FilterSeen(_, _)
\* the search command: "filter out duplicate search terms if present"
FilterSeen(terms_stem, seen_terms) ==
    IF terms_stem = <<>> THEN <<>>
    ELSE IF Head(terms_stem) \in SeqToSet(seen_terms)
         THEN FilterSeen(Tail(terms_stem), seen_terms)
         ELSE <<Head(terms_stem)>>
              \o FilterSeen(Tail(terms_stem), Append(seen_terms, Head(terms_stem)))

\* the search command, the loop over the positions of one term: an
\* excerpt is printed for every position until i == e_limit
term_excerpts(term, positions, excerpts) ==
    LET n == IF excerpts # None /\ excerpts[1] < Len(positions)
             THEN excerpts[1] ELSE Len(positions)
    IN [i \in 1..n |-> [term |-> term, position |-> positions[i]]]

RECURSIVE item_excerpts(_, _, _)
\* the search command, the loop over terms_include for one item
item_excerpts(item, terms_include, excerpts) ==
    IF terms_include = <<>> THEN <<>>
    ELSE term_excerpts(Head(terms_include), item.matches[Head(terms_include)],
                       excerpts)
         \o item_excerpts(item, Tail(terms_include), excerpts)

\* the search command without --count: search_structured for the stemmed
\* terms, then the excerpts of every item; lookup records, for every item,
\* the positions an excerpt was printed for
SearchCommand(terms, excerpts) ==
    /\ pc = "idle"
    /\ LET terms_include == FilterSeen(stem_vec(terms), <<>>)
           search_query == [terms_include |-> terms_include,
                            terms_exclude |-> <<>>, uuids |-> <<>>]
           search_results == search_structured(snip_index_rs, search_query)
       IN /\ query' = search_query
          /\ result' = search_results
          /\ lookup' = [op |-> "search", input |-> [terms |-> terms,
                                                    excerpts |-> excerpts],
                        output |-> [i \in 1..Len(search_results.items) |->
                                       item_excerpts(search_results.items[i],
                                                     terms_include, excerpts)]]
    /\ pc' = "searched"
    /\ UNCHANGED <<snip, snip_index_rs, s, cmd, todo, terms_positions, calls,
                   rows_before, analyzed, context, snip_attachment,
                   index_before, failures, evaluation>>

NextSearchCmd ==
    \/ \E uuid \in Uuids, name \in Names, text \in DocTexts, timestamp \in Timestamps :
          Add(uuid, name, text, timestamp)
    \/ IndexPrepare
    \/ IndexDrop
    \/ IndexWrite
    \/ IndexReturn
    \/ Finish
    \/ \E terms \in SearchTerms, excerpts \in ExcerptLimits :
          SearchCommand(terms, excerpts)
    \/ SearchReturn

SpecSearchCmd == Init /\ [][NextSearchCmd]_vars

-----------------------------------------------------------------------------
(* search_structured on one connection while another connection writes *)

\* the texts written while a query is evaluated: one stem, two stems
ConcTexts == {<<"A">>, <<"A", " ", "a", "a", "s">>}
\* the queries evaluated: one include term, one include term and an
\* exclude term, two include terms and a uuid
ConcQueries ==
    {[terms_include |-> <<<<"a">>>>, terms_exclude |-> <<>>, uuids |-> <<>>],
     [terms_include |-> <<<<"a">>>>, terms_exclude |-> <<<<"a", "a">>>>,
      uuids |-> <<>>],
     [terms_include |-> <<<<"a">>, <<"a", "a">>>>, terms_exclude |-> <<>>,
      uuids |-> <<<<"a", "b">>>>]}

\* search_structured after the INCLUDE loop: the EXCLUDE loop, or with no
\* exclude term BUILD OUTPUT
AfterInclude(e, include_results) ==
    [e EXCEPT !.include_results = include_results,
              !.i = 1,
              !.pc = IF e.search_query.terms_exclude = <<>>
                     THEN "build" ELSE "exclude"]

\* search_structured is called: with uuids in the query they are the
\* candidates of BUILD OUTPUT
EvalCall(search_query) ==
    /\ evaluation.pc = "none"
    /\ evaluation' =
          [pc |-> IF search_query.uuids = <<>> THEN "include" ELSE "build",
           search_query |-> search_query,
           i |-> 1,
           include_results |-> search_query.uuids,
           exclude_results |-> <<>>,
           matches |-> <<>>,
           items |-> <<>>]
    /\ UNCHANGED <<snip, snip_index_rs, s, pc, cmd, todo, terms_positions,
                   calls, rows_before, analyzed, query, result, context,
                   lookup, snip_attachment, index_before, failures>>

\* search_structured, one turn of the INCLUDE loop:
\* search_uuids_matching_term for the term i
EvalInclude ==
    /\ evaluation.pc = "include"
    /\ LET terms_include == evaluation.search_query.terms_include
           found == search_uuids_matching_term(snip_index_rs,
                                               terms_include[evaluation.i])
       IN evaluation' =
             IF evaluation.i = 1
             THEN IF Len(terms_include) = 1
                  THEN AfterInclude(evaluation, found)
                  ELSE [evaluation EXCEPT !.include_results = found, !.i = 2]
             ELSE LET kept == SelectSeq(evaluation.include_results,
                                        LAMBDA id : id \in SeqToSet(found))
                  IN IF evaluation.i = Len(terms_include)
                     THEN AfterInclude(evaluation, kept)
                     ELSE [evaluation EXCEPT !.include_results = kept,
                                             !.i = @ + 1]
    /\ UNCHANGED <<snip, snip_index_rs, s, pc, cmd, todo, terms_positions,
                   calls, rows_before, analyzed, query, result, context,
                   lookup, snip_attachment, index_before, failures>>

\* search_structured, one turn of the EXCLUDE loop, and after the last
\* turn the subtraction of the exclude results
EvalExclude ==
    /\ evaluation.pc = "exclude"
    /\ LET terms_exclude == evaluation.search_query.terms_exclude
           exclude_results ==
               PushNew(evaluation.exclude_results,
                       search_uuids_matching_term(snip_index_rs,
                                                  terms_exclude[evaluation.i]))
       IN evaluation' =
             IF evaluation.i = Len(terms_exclude)
             THEN [evaluation EXCEPT
                      !.exclude_results = exclude_results,
                      !.include_results =
                          SelectSeq(evaluation.include_results,
                                    LAMBDA id : id \notin SeqToSet(exclude_results)),
                      !.i = 1,
                      !.pc = "build"]
             ELSE [evaluation EXCEPT !.exclude_results = exclude_results,
                                     !.i = @ + 1]
    /\ UNCHANGED <<snip, snip_index_rs, s, pc, cmd, todo, terms_positions,
                   calls, rows_before, analyzed, query, result, context,
                   lookup, snip_attachment, index_before, failures>>

\* search_structured, BUILD OUTPUT: get_term_positions for the first
\* candidate left and the include term i; after the last term the item is
\* pushed
EvalPositions ==
    /\ evaluation.pc = "build"
    /\ evaluation.include_results # <<>>
    /\ LET terms_include == evaluation.search_query.terms_include
           uuid == Head(evaluation.include_results)
           term == terms_include[evaluation.i]
           positions == get_term_positions(snip_index_rs, uuid, term).positions
           matches == [t \in (DOMAIN evaluation.matches) \cup {term} |->
                          IF t = term THEN positions ELSE evaluation.matches[t]]
       IN evaluation' =
             IF evaluation.i = Len(terms_include)
             THEN [evaluation EXCEPT
                      !.items = Append(@, [uuid |-> uuid, score |-> None,
                                           matches |-> matches]),
                      !.include_results = Tail(@),
                      !.matches = <<>>,
                      !.i = 1]
             ELSE [evaluation EXCEPT !.matches = matches, !.i = @ + 1]
    /\ UNCHANGED <<snip, snip_index_rs, s, pc, cmd, todo, terms_positions,
                   calls, rows_before, analyzed, query, result, context,
                   lookup, snip_attachment, index_before, failures>>

\* search_structured returns Ok(query_result)
EvalReturn ==
    /\ evaluation.pc = "build"
    /\ evaluation.include_results = <<>>
    /\ evaluation' = [evaluation EXCEPT !.pc = "returned"]
    /\ UNCHANGED <<snip, snip_index_rs, s, pc, cmd, todo, terms_positions,
                   calls, rows_before, analyzed, query, result, context,
                   lookup, snip_attachment, index_before, failures>>

\* the caller of search_structured is done with the result
EvalDone ==
    /\ evaluation.pc = "returned"
    /\ evaluation' = NoEvaluation
    /\ UNCHANGED <<snip, snip_index_rs, s, pc, cmd, todo, terms_positions,
                   calls, rows_before, analyzed, query, result, context,
                   lookup, snip_attachment, index_before, failures>>

NextConcurrent ==
    \/ \E uuid \in CliUuids, name \in Names, text \in ConcTexts, timestamp \in Timestamps :
          Add(uuid, name, text, timestamp)
    \/ \E uuid \in CliUuids : IndexDoc(uuid)
    \/ IndexPrepare
    \/ IndexDrop
    \/ IndexWrite
    \/ IndexReturn
    \/ Finish
    \/ \E id_partial \in CliPartials : Rm(id_partial)
    \/ RemoveDropIndices
    \/ RemoveDocument
    \/ RmReturn
    \/ \E search_query \in ConcQueries : EvalCall(search_query)
    \/ EvalInclude
    \/ EvalExclude
    \/ EvalPositions
    \/ EvalReturn
    \/ EvalDone

SpecConcurrent == Init /\ [][NextConcurrent]_vars

-----------------------------------------------------------------------------
(* Properties of the analysis *)

RECURSIVE Reconstruct(_)
\* word[0] + suffix[0] + word[1] + suffix[1] + ..., None read as ""
Reconstruct(words) ==
    IF words = <<>> THEN <<>>
    ELSE Head(words).word \o Concat(Head(words).suffix) \o Reconstruct(Tail(words))

\* C4: after analyze() of any text, prefix[0] + word[0] + suffix[0] +
\* word[1] + suffix[1] + ... (an absent fragment read as the empty string)
\* is the original text.
C4_RoundTrip ==
    analyzed = 1 =>
        (IF s.analysis.words = <<>> THEN <<>>
         ELSE Concat(s.analysis.words[1].prefix) \o Reconstruct(s.analysis.words))
        = s.text

\* the text strictly between the end of token i and the start of token i+1
Between(text, words, i) ==
    SubSeq(text, words[i].offset + Len(words[i].word) + 1, words[i+1].offset)

\* C5: after analyze(), for every adjacent pair of tokens, the last pair
\* included, the suffix of the first and the prefix of the second are both
\* the text between the two tokens.
C5_BoundarySharing ==
    analyzed = 1 =>
        \A i \in 1..(Len(s.analysis.words) - 1) :
            /\ s.analysis.words[i].suffix = Some(Between(s.text, s.analysis.words, i))
            /\ s.analysis.words[i+1].prefix = Some(Between(s.text, s.analysis.words, i))

Range(lo, hi) == [k \in 1..(hi - lo + 1) |-> lo + k - 1]
Max(a, b) == IF a >= b THEN a ELSE b
Min(a, b) == IF a <= b THEN a ELSE b

\* C6: for n >= 1 words, a position p in 0..n-1 and a width c,
\* get_term_context_positions returns the ascending ordinals
\* max(0, p-c) .. min(n-1, p+c), truncated at either end of the document.
C6_ContextWindow ==
    (context.called /\ context.position < Len(s.analysis.words)) =>
        context.out = Range(Max(0, context.position - context.count),
                            Min(Len(s.analysis.words) - 1,
                                context.position + context.count))

\* a window cut short at both ends of the document
C6_Witness ==
    /\ context.called
    /\ context.position < Len(s.analysis.words)
    /\ context.position - context.count < 0
    /\ context.position + context.count > Len(s.analysis.words) - 1
    /\ Len(context.out) >= 2

\* C10: analyze() of a document that has been analyzed before leaves the
\* word sequence of one analyze() of its text.
C10_AnalyzeFresh ==
    analyzed >= 1 =>
        s.analysis.words =
            analyze([s EXCEPT !.analysis.words = <<>>]).analysis.words

-----------------------------------------------------------------------------
(* Properties of the index writer *)

IndexRows(uuid) == RowsOf(snip_index_rs, uuid)
StemsOf(words) == {words[i].stem : i \in 1..Len(words)}
OrdinalsOf(words, stem) == {i - 1 : i \in {j \in 1..Len(words) : words[j].stem = stem}}
Ascending(seq) == \A i \in 1..(Len(seq) - 1) : seq[i] < seq[i+1]

\* C2: when index(doc) has returned, for every stem S of doc's analysis
\* there is a row (doc, S), its count is the number of analyzed words with
\* stem S and its positions are the ordinals of those words, ascending.
C2_IndexConsistency ==
    pc = "returned" =>
        \A stem \in StemsOf(s.analysis.words) :
            /\ \E i \in 1..Len(snip_index_rs) :
                  snip_index_rs[i].uuid = s.uuid /\ snip_index_rs[i].term = stem
            /\ \A i \in 1..Len(snip_index_rs) :
                  (snip_index_rs[i].uuid = s.uuid /\ snip_index_rs[i].term = stem) =>
                    LET row == snip_index_rs[i]
                        positions == positions_to_u64(row.positions)
                    IN /\ row.count = Cardinality(OrdinalsOf(s.analysis.words, stem))
                       /\ positions # None
                       /\ SeqToSet(positions[1]) = OrdinalsOf(s.analysis.words, stem)
                       /\ Len(positions[1]) = row.count
                       /\ Ascending(positions[1])

\* index() has returned for a document in which one stem occurs twice
C2_Witness ==
    /\ pc = "returned"
    /\ \E i \in 1..Len(snip_index_rs) :
          /\ snip_index_rs[i].uuid = s.uuid
          /\ snip_index_rs[i].count = 2
          /\ snip_index_rs[i].positions = <<"0", ",", "1">>

\* C3: when index(D) has returned, D has exactly one row for every stem of
\* its analysis and no row for any other term: the rows of stems that are
\* gone from the text are gone.
C3_FullReplace ==
    pc = "returned" =>
        /\ \A stem \in StemsOf(s.analysis.words) :
              Cardinality({i \in 1..Len(snip_index_rs) :
                              snip_index_rs[i].uuid = s.uuid
                              /\ snip_index_rs[i].term = stem}) = 1
        /\ \A i \in 1..Len(snip_index_rs) :
              snip_index_rs[i].uuid = s.uuid =>
                  snip_index_rs[i].term \in StemsOf(s.analysis.words)

\* index() has returned for a document that had a row for a stem its new
\* text no longer has
C3_Witness ==
    /\ pc = "returned"
    /\ cmd = "update"
    /\ s.analysis.words # <<>>
    /\ \E i \in 1..Len(rows_before) :
          rows_before[i].term \notin StemsOf(s.analysis.words)

\* C9: a second index(doc) in succession, the text unchanged, leaves the
\* rows the first call left: the same terms, counts and positions, and no
\* row twice.
C9_Idempotent ==
    (pc = "returned" /\ calls >= 2) =>
        /\ SeqToSet(IndexRows(s.uuid)) = SeqToSet(rows_before)
        /\ Len(IndexRows(s.uuid)) = Len(rows_before)
        /\ Cardinality(SeqToSet(IndexRows(s.uuid))) = Len(IndexRows(s.uuid))

\* the second index() has returned for a document with two stems
C9_Witness ==
    /\ pc = "returned"
    /\ calls = 2
    /\ Len(rows_before) = 2
    /\ Len(s.analysis.words) = 2

-----------------------------------------------------------------------------
(* Properties of the structured search *)

HasRow(uuid, term) ==
    \E i \in 1..Len(snip_index_rs) :
        snip_index_rs[i].uuid = uuid /\ snip_index_rs[i].term = term
ItemUuids == [i \in 1..Len(result.items) |-> result.items[i].uuid]

\* C1: a search without uuids and with an include term returns the
\* documents that have a row for every include term and no row for any
\* exclude term, each of them once.
C1_BooleanSearch ==
    (pc = "searched" /\ query.uuids = <<>> /\ query.terms_include # <<>>) =>
        LET expected ==
                {uuid \in {snip_index_rs[i].uuid : i \in 1..Len(snip_index_rs)} :
                    /\ \A term \in SeqToSet(query.terms_include) : HasRow(uuid, term)
                    /\ \A term \in SeqToSet(query.terms_exclude) : ~HasRow(uuid, term)}
        IN /\ result.status = "Ok"
           /\ SeqToSet(ItemUuids) = expected
           /\ Len(ItemUuids) = Cardinality(expected)

\* a search that returns one document and drops another, which has every
\* include term, for its exclude term
C1_Witness ==
    /\ pc = "searched"
    /\ query.uuids = <<>>
    /\ query.terms_include # <<>>
    /\ Len(result.items) = 1
    /\ \E uuid \in Uuids :
          /\ uuid \notin SeqToSet(ItemUuids)
          /\ \A term \in SeqToSet(query.terms_include) : HasRow(uuid, term)
          /\ \E term \in SeqToSet(query.terms_exclude) : HasRow(uuid, term)

\* C7: every returned item maps every include term, and nothing else, to a
\* position list; where the index has the row (item.uuid, t) it is the list
\* stored in that row, ascending.
C7_Matches ==
    (pc = "searched" /\ result.status = "Ok") =>
        \A k \in 1..Len(result.items) :
            LET item == result.items[k] IN
            /\ DOMAIN item.matches = SeqToSet(query.terms_include)
            /\ \A term \in SeqToSet(query.terms_include) :
                  \A i \in 1..Len(snip_index_rs) :
                      (snip_index_rs[i].uuid = item.uuid
                       /\ snip_index_rs[i].term = term) =>
                          /\ positions_to_string(item.matches[term])
                                = snip_index_rs[i].positions
                          /\ Len(item.matches[term]) = snip_index_rs[i].count
                          /\ Ascending(item.matches[term])

\* an item with two include terms, one of them at two positions
C7_Witness ==
    /\ pc = "searched"
    /\ result.status = "Ok"
    /\ \E k \in 1..Len(result.items) :
          /\ Cardinality(DOMAIN result.items[k].matches) = 2
          /\ \E term \in DOMAIN result.items[k].matches :
                Len(result.items[k].matches[term]) = 2

\* C8: with uuids the result has one item per supplied uuid, in the
\* supplied order, whatever the index holds for them; an include term the
\* document lacks is mapped to the empty list.
C8_ExplicitUuids ==
    (pc = "searched" /\ query.uuids # <<>>) =>
        /\ result.status = "Ok"
        /\ ItemUuids = query.uuids
        /\ \A k \in 1..Len(result.items) :
              \A term \in SeqToSet(query.terms_include) :
                  ~HasRow(result.items[k].uuid, term) =>
                      result.items[k].matches[term] = <<>>

\* two supplied documents are returned in the supplied order: one has an
\* exclude term, one lacks an include term
C8_Witness ==
    /\ pc = "searched"
    /\ Len(query.uuids) = 2
    /\ query.uuids[1] # query.uuids[2]
    /\ ItemUuids = query.uuids
    /\ \E k \in 1..Len(result.items) :
          \E term \in SeqToSet(query.terms_exclude) :
              HasRow(result.items[k].uuid, term)
    /\ \E k \in 1..Len(result.items) :
          \E term \in SeqToSet(query.terms_include) :
              /\ ~HasRow(result.items[k].uuid, term)
              /\ result.items[k].matches[term] = <<>>

\* the indexed documents that have a row for every include term of the
\* query and no row for any of its exclude terms
Matching ==
    {uuid \in {snip_index_rs[i].uuid : i \in 1..Len(snip_index_rs)} :
        /\ \A term \in SeqToSet(query.terms_include) : HasRow(uuid, term)
        /\ \A term \in SeqToSet(query.terms_exclude) : ~HasRow(uuid, term)}

\* C18 as stated: search_structured and search_index_term both return
\* SearchNoMatches, not a successful empty result, when no indexed document
\* matches.
C18_NoMatches ==
    pc = "searched" =>
        /\ (lookup.op = "search_index_term"
            /\ \A i \in 1..Len(snip_index_rs) : snip_index_rs[i].term # lookup.input)
              => lookup.output.status = "SearchNoMatches"
        /\ (lookup.op = "none" /\ query.uuids = <<>>
            /\ query.terms_include # <<>> /\ Matching = {})
              => result.status = "SearchNoMatches"

\* C18: search_index_term returns SearchNoMatches exactly when no row has
\* the term, and never a successful empty result; search_structured never
\* returns SearchNoMatches: without uuids and with an include term it
\* returns a successful result without items when no indexed document
\* matches.
C18_EmptyResult ==
    pc = "searched" =>
        /\ lookup.op = "search_index_term" =>
              /\ lookup.output.status = "SearchNoMatches" <=>
                    \A i \in 1..Len(snip_index_rs) :
                        snip_index_rs[i].term # lookup.input
              /\ lookup.output.status = "Ok" => lookup.output.results # <<>>
        /\ lookup.op = "none" =>
              /\ result.status # "SearchNoMatches"
              /\ (query.uuids = <<>> /\ query.terms_include # <<>> /\ Matching = {})
                    => (result.status = "Ok" /\ result.items = <<>>)

\* search_structured has returned no item for an include term that one
\* indexed document has, because the document has the exclude term too
C18_Witness ==
    /\ pc = "searched"
    /\ lookup.op = "none"
    /\ query.uuids = <<>>
    /\ result.status = "Ok"
    /\ result.items = <<>>
    /\ \E uuid \in Uuids :
          /\ \A term \in SeqToSet(query.terms_include) : HasRow(uuid, term)
          /\ query.terms_include # <<>>
          /\ \E term \in SeqToSet(query.terms_exclude) : HasRow(uuid, term)

\* the documents whose rows search_structured reads the positions of
Consulted ==
    IF query.uuids # <<>> THEN SeqToSet(query.uuids)
    ELSE IF query.terms_include = <<>> THEN {}
    ELSE Matching
\* the first row of a document and a term
FirstRow(uuid, term) ==
    LET rows == {i \in 1..Len(snip_index_rs) :
                    snip_index_rs[i].uuid = uuid /\ snip_index_rs[i].term = term}
    IN snip_index_rs[CHOOSE i \in rows : \A j \in rows : i <= j]
\* the positions string has a field that is not a non-negative integer
Malformed(positions) ==
    \E k \in 1..Len(Split(positions, ",")) :
        LET field == Split(positions, ",")[k]
        IN field = <<>> \/ \E c \in 1..Len(field) : field[c] \notin SeqToSet(Digits)

\* C19: when the positions string of a row that a search reads has a field
\* that is not a non-negative integer, the search ends in the panic of the
\* failed parse; a search that returns has read no such row, and gives
\* every item the positions of the row it read.
C19_FatalParse ==
    pc = "searched" =>
        /\ lookup.op = "none" =>
              /\ result.status = "panic" <=>
                    \E uuid \in Consulted, term \in SeqToSet(query.terms_include) :
                        HasRow(uuid, term) /\ Malformed(FirstRow(uuid, term).positions)
              /\ result.status = "Ok" =>
                    \A k \in 1..Len(result.items) :
                        \A term \in SeqToSet(query.terms_include) :
                            HasRow(result.items[k].uuid, term) =>
                                positions_to_string(result.items[k].matches[term])
                                    = FirstRow(result.items[k].uuid, term).positions
        /\ lookup.op = "search_index_term" =>
              lookup.output.status = "panic" <=>
                    \E i \in 1..Len(snip_index_rs) :
                        /\ snip_index_rs[i].term = lookup.input
                        /\ Malformed(snip_index_rs[i].positions)

\* a search has panicked on the row of its second document after it had
\* read the positions of its first document
C19_Witness ==
    /\ pc = "searched"
    /\ lookup.op = "none"
    /\ query.uuids = <<>>
    /\ result.status = "panic"
    /\ Len(snip_index_rs) = 2
    /\ ~Malformed(snip_index_rs[1].positions)
    /\ Malformed(snip_index_rs[2].positions)
    /\ snip_index_rs[1].uuid # snip_index_rs[2].uuid
    /\ snip_index_rs[1].term = snip_index_rs[2].term

-----------------------------------------------------------------------------
(* Properties of the index writer when a statement can fail *)

\* the rows index() writes for an analysis
NewRowSet(uuid, words) ==
    {[term |-> stem, uuid |-> uuid,
      count |-> Cardinality(OrdinalsOf(words, stem)),
      positions |-> positions_to_string(SortedSeq(OrdinalsOf(words, stem)))] :
        stem \in StemsOf(words)}
ExactlyOnce(rows, S) == SeqToSet(rows) = S /\ Len(rows) = Cardinality(S)

\* C12 as stated: whenever index(D) returns an error, the rows of D are
\* either exactly the rows before the call or exactly the complete new
\* set, never an empty or partial set.
C12_AllOrNothing ==
    pc = "failed" =>
        \/ IndexRows(s.uuid) = rows_before
        \/ ExactlyOnce(IndexRows(s.uuid), NewRowSet(s.uuid, s.analysis.words))

\* C12: whenever index(D) returns an error, the rows of D are either
\* exactly the rows before the call (the delete failed) or some, but never
\* all, of the rows of the new set, each at most once (a write failed
\* after the delete); none of them may be left.
C12_PartialOnError ==
    pc = "failed" =>
        \/ IndexRows(s.uuid) = rows_before
        \/ /\ SeqToSet(IndexRows(s.uuid)) \subseteq NewRowSet(s.uuid, s.analysis.words)
           /\ SeqToSet(IndexRows(s.uuid)) # NewRowSet(s.uuid, s.analysis.words)
           /\ Cardinality(SeqToSet(IndexRows(s.uuid))) = Len(IndexRows(s.uuid))

\* the first write of index() failed for a document that had rows: the
\* delete has run and the document has no row
C12_Witness ==
    /\ pc = "failed"
    /\ rows_before # <<>>
    /\ IndexRows(s.uuid) = <<>>
    /\ StemsOf(s.analysis.words) # {}

\* the analysis of the stored text of a row of snip
StoredWords(row) ==
    stem_words(split_words(NewSnip(row.uuid, row.name, row.text, 0))).analysis.words

C20_DeleteThenWrite ==
    [][/\ pc = "drop" =>
            /\ s.analysis.words # <<>> \/ unicode_word_indices(s.text) = <<>>
            /\ DOMAIN terms_positions = StemsOf(s.analysis.words)
            /\ IndexRows(s.uuid) = rows_before
       /\ (pc = "drop" /\ pc' = "write") => RowsOf(snip_index_rs', s.uuid) = <<>>
       /\ pc = "write" =>
            /\ SeqToSet(IndexRows(s.uuid)) \subseteq NewRowSet(s.uuid, s.analysis.words)
            /\ Cardinality(SeqToSet(IndexRows(s.uuid))) = Len(IndexRows(s.uuid))
            /\ {row.term : row \in SeqToSet(IndexRows(s.uuid))}
                  = StemsOf(s.analysis.words) \ DOMAIN terms_positions
       /\ \A uuid \in Uuids :
            RowsOf(snip_index_rs', uuid) # IndexRows(uuid) =>
                \/ pc \in {"drop", "write"} /\ s.uuid = uuid
                \/ pc = "idle" /\ pc' = "all"
      ]_vars

\* index() stopped at its second write for a document that had rows: one
\* of its two new rows is written
C20_Witness ==
    /\ pc = "failed"
    /\ rows_before # <<>>
    /\ Len(IndexRows(s.uuid)) = 1
    /\ Cardinality(StemsOf(s.analysis.words)) = 2

-----------------------------------------------------------------------------
(* Properties of remove_snip and Snip::update *)

\* C14: after remove_snip(id) has succeeded, get_from_uuid(id) fails, no
\* attachment has snip_uuid id and no index row has uuid id, so no search
\* that finds its documents in the index returns id.
C14_RemoveSnip ==
    (pc = "removed" /\ lookup.output = "Ok") =>
        /\ ~Stored(lookup.input)
        /\ \A i \in 1..Len(snip_attachment) :
              snip_attachment[i].snip_uuid # lookup.input
        /\ \A i \in 1..Len(snip_index_rs) : snip_index_rs[i].uuid # lookup.input
        /\ \A search_query \in Queries :
              search_query.uuids = <<>> =>
                LET items == search_structured(snip_index_rs, search_query).items
                IN \A k \in 1..Len(items) : items[k].uuid # lookup.input

\* remove_snip succeeded for a document that had an attachment and index
\* rows, and another document with an attachment and rows is stored
C14_Witness ==
    /\ pc = "removed"
    /\ lookup.output = "Ok"
    /\ s.attachments # <<>>
    /\ rows_before # <<>>
    /\ snip # <<>>
    /\ snip_attachment # <<>>
    /\ snip_index_rs # <<>>

\* C16: after Snip::update has succeeded, get_from_uuid returns the name,
\* the text and the timestamp that were written; update returns an error
\* whenever the rows affected are not exactly one, as when the uuid is not
\* stored.
C16_Update ==
    pc = "updated" =>
        /\ lookup.output = "Ok" <=>
              Cardinality({i \in 1..Len(snip) : snip[i].uuid = s.uuid}) = 1
        /\ lookup.output = "Ok" =>
              LET got == get_from_uuid(s.uuid)
              IN /\ got.name = s.name
                 /\ got.text = s.text
                 /\ got.timestamp = s.timestamp
        /\ ~Stored(s.uuid) => lookup.output = "General"

\* Snip::update succeeded with a name, a text and a timestamp, one with a
\* fraction of a second, that all differ from what add had written
C16_Witness ==
    /\ pc = "updated"
    /\ lookup.output = "Ok"
    /\ s.name = <<"m">>
    /\ s.timestamp = 1500000000
    /\ \E i \in 1..Len(snip_index_rs) :
          /\ snip_index_rs[i].uuid = s.uuid
          /\ snip_index_rs[i].term \notin StemsOf(StoredWords(get_from_uuid(s.uuid)))

-----------------------------------------------------------------------------
(* Properties of the functions that only read *)

\* C11: the positions encoding is lossless: for every list of
\* non-negative integers, the empty list and one-element lists included,
\* positions_to_u64(positions_to_string(L)) succeeds and returns L.
C11_Lossless ==
    lookup.op = "positions" => lookup.output = Some(lookup.input)

\* C17: for every word w, the key the search command derives with stem_vec
\* equals the stem stored when a document containing w is analyzed with
\* stem_words, words in upper case and words with the right single
\* quotation mark included.
C17_SameStem ==
    lookup.op = "stem" => lookup.output.query = lookup.output.index

\* str::contains
Contains(str, sub) ==
    \E k \in 0..(Len(str) - Len(sub)) : SubSeq(str, k + 1, k + Len(sub)) = sub
\* the table a recorded resolution of a partial uuid has searched
LookupTable ==
    IF lookup.op = "search_uuid" THEN snip ELSE snip_attachment
\* the stored uuids that contain the partial as a substring
Containing ==
    {row.uuid : row \in {r \in SeqToSet(LookupTable) : Contains(r.uuid, lookup.input)}}

\* C15 as stated: search_uuid(partial) and search_attachment_uuid(partial)
\* return X exactly when X is the only stored uuid that contains partial
\* as a substring, UuidMultipleMatches when two or more contain it, and
\* UuidNotFound when none does.
C15_Substring ==
    pc = "found" =>
        /\ lookup.output.status = "Ok" <=> Cardinality(Containing) = 1
        /\ lookup.output.status = "Ok" => lookup.output.uuid \in Containing
        /\ lookup.output.status = "UuidMultipleMatches" <=> Cardinality(Containing) >= 2
        /\ lookup.output.status = "UuidNotFound" <=> Containing = {}

\* C15: for a partial made of the characters of a uuid string only, the
\* result is X exactly when X is the only stored uuid that contains
\* partial, UuidMultipleMatches when two or more contain it and
\* UuidNotFound when none does; for any partial, a stored uuid that
\* contains partial is matched, so the result is UuidMultipleMatches when
\* two or more contain it, is never UuidNotFound when one contains it, and
\* is never a uuid other than the one that contains it.
C15_Like ==
    pc = "found" =>
        /\ lookup.input \in Strings(IdChars, Len(lookup.input)) =>
              /\ lookup.output.status = "Ok" <=> Cardinality(Containing) = 1
              /\ lookup.output.status = "Ok" => lookup.output.uuid \in Containing
              /\ lookup.output.status = "UuidMultipleMatches"
                    <=> Cardinality(Containing) >= 2
              /\ lookup.output.status = "UuidNotFound" <=> Containing = {}
        /\ Cardinality(Containing) >= 2 =>
              lookup.output.status = "UuidMultipleMatches"
        /\ Containing # {} => lookup.output.status # "UuidNotFound"
        /\ (lookup.output.status = "Ok" /\ Containing # {}) =>
              Containing = {lookup.output.uuid}

\* a partial of two characters of a uuid string is contained in one of two
\* stored uuids, which is returned
C15_Witness ==
    /\ pc = "found"
    /\ lookup.op = "search_uuid"
    /\ Len(lookup.input) = 2
    /\ lookup.input \in Strings(IdChars, 2)
    /\ Len(snip) = 2
    /\ lookup.output.status = "Ok"
    /\ Containing = {lookup.output.uuid}

-----------------------------------------------------------------------------
(* Properties of the commands of main *)

\* C21: after any sequence of completed commands add, import, update,
\* rename, rm and index, whenever no command is running, the index table
\* holds for every stored document one row per distinct stem of its stored
\* text, with the count and the positions of that stem, every position
\* smaller than the number of words of the text, and it holds no row of a
\* uuid that is not stored.
C21_CliConsistency ==
    pc = "idle" =>
        /\ \A i \in 1..Len(snip) :
              LET words == StoredWords(snip[i])
                  rows == IndexRows(snip[i].uuid)
              IN /\ Len(rows) = Cardinality(StemsOf(words))
                 /\ \A stem \in StemsOf(words) :
                       \E k \in 1..Len(rows) : rows[k].term = stem
                 /\ \A k \in 1..Len(rows) :
                       LET positions == positions_to_u64(rows[k].positions) IN
                       /\ positions # None
                       /\ SeqToSet(positions[1]) = OrdinalsOf(words, rows[k].term)
                       /\ Len(positions[1]) = rows[k].count
                       /\ rows[k].count = Cardinality(OrdinalsOf(words, rows[k].term))
                       /\ \A p \in SeqToSet(positions[1]) : p < Len(words)
        /\ \A i \in 1..Len(snip_index_rs) : Stored(snip_index_rs[i].uuid)

\* no command is running, two documents are stored, the first of them was
\* renamed, and the index holds the rows of two stems of one document
C21_Witness ==
    /\ pc = "idle"
    /\ Len(snip) = 2
    /\ snip[1].name = <<"m">>
    /\ \E i, j \in 1..Len(snip_index_rs) :
          /\ snip_index_rs[i].uuid = snip_index_rs[j].uuid
          /\ snip_index_rs[i].term # snip_index_rs[j].term

\* C22: every row written by index() has a positions string that is not
\* empty and parses to a list that is not empty, strictly ascending and as
\* long as the count of the row says.
C22_RowsWellFormed ==
    \A i \in 1..Len(snip_index_rs) :
        LET row == snip_index_rs[i]
            positions == positions_to_u64(row.positions)
        IN /\ row.positions # <<>>
           /\ positions # None
           /\ positions[1] # <<>>
           /\ Ascending(positions[1])
           /\ Len(positions[1]) = row.count

\* index() is writing the rows of a document and the table holds a row
\* of a stem that occurs twice
C22_Witness ==
    /\ pc = "write"
    /\ \E i \in 1..Len(snip_index_rs) :
          /\ snip_index_rs[i].count = 2
          /\ Len(positions_to_u64(snip_index_rs[i].positions)[1]) = 2

-----------------------------------------------------------------------------
(* Properties of the commands of main when a statement can fail *)

\* C23: in every state reached by one process, the states between the
\* statements of index(), index_all_items and remove_snip and the states
\* a failed statement leaves included, the index table has at most one
\* row for a uuid and a term.
C23_OneRowPerTerm ==
    \A i, j \in 1..Len(snip_index_rs) :
        (snip_index_rs[i].uuid = snip_index_rs[j].uuid
         /\ snip_index_rs[i].term = snip_index_rs[j].term) => i = j

\* a write of index() has failed for a document that had rows, one row of
\* the new set is written, and the other document has rows of its own
C23_Witness ==
    /\ pc = "failed"
    /\ rows_before # <<>>
    /\ Len(IndexRows(s.uuid)) = 1
    /\ Cardinality(StemsOf(s.analysis.words)) = 2
    /\ \E i \in 1..Len(snip_index_rs) : snip_index_rs[i].uuid # s.uuid

\* the statements of index(): from the call to its return or its error
InIndex == pc \in {"index", "drop", "write"}

\* C24: no step of index(D), whether the call succeeds or fails, inserts,
\* deletes or modifies an index row of another document, and none changes
\* the stored documents or the attachments.
C24_IndexFrame ==
    [][InIndex =>
          /\ \A uuid \in CliUuids \ {s.uuid} :
                RowsOf(snip_index_rs', uuid) = RowsOf(snip_index_rs, uuid)
          /\ snip' = snip
          /\ snip_attachment' = snip_attachment]_vars

\* index() has deleted the rows of a document that had rows, while the
\* other document has rows and attachments are stored
C24_Witness ==
    /\ pc = "write"
    /\ rows_before # <<>>
    /\ snip_attachment # <<>>
    /\ \E i \in 1..Len(snip_index_rs) : snip_index_rs[i].uuid # s.uuid

\* C25: when remove_snip(id) has returned an error, nothing is removed:
\* the document is stored as get_from_uuid read it, the attachments
\* collected at the call are stored, and the index rows of the document are
\* the rows before the call.
C25_NothingRemoved ==
    (pc = "removed" /\ lookup.op = "remove_snip" /\ lookup.output # "Ok") =>
        /\ \E i \in 1..Len(snip) :
              /\ snip[i].uuid = s.uuid
              /\ snip[i].name = s.name
              /\ snip[i].text = s.text
        /\ \A k \in 1..Len(s.attachments) :
              \E i \in 1..Len(snip_attachment) :
                  snip_attachment[i].uuid = s.attachments[k]
        /\ IndexRows(s.uuid) = rows_before

-----------------------------------------------------------------------------
(* Properties of find_by_graph *)

\* the indices at which word occurs in text as a run of graphemes
Occurrences(word, text) ==
    {i \in 0..(Len(text) - Len(word)) : SubSeq(text, i + 1, i + Len(word)) = word}

\* C26: for a word that is not empty, find_by_graph(word, text) returns
\* the first index at which word occurs in text as a run of graphemes, and
\* None only when word does not occur in text.
C26_FirstOccurrence ==
    lookup.op = "find_by_graph" =>
        LET found == Occurrences(lookup.input.word, lookup.input.text) IN
        IF found = {} THEN lookup.output = None
        ELSE lookup.output = Some(CHOOSE i \in found : \A j \in found : i <= j)

-----------------------------------------------------------------------------
(* Properties of the search command *)

\* C27: when the search command is given an excerpt limit L, at most L
\* excerpts are printed for each matched document, whatever the number of
\* include terms and of positions.
C27_ExcerptLimit ==
    (lookup.op = "search" /\ lookup.input.excerpts # None) =>
        \A i \in 1..Len(lookup.output) :
            Len(lookup.output[i]) <= lookup.input.excerpts[1]

-----------------------------------------------------------------------------
(* Properties of search_structured while another connection writes *)

\* C28: the result of search_structured, evaluated while another
\* connection runs index(D) or remove_snip(D), is the result of the query
\* on the index table of one instant.  Every row of the table holds a
\* position (C22) and a query without uuids returns the documents that
\* have a row for every include term, so on the table of any one instant
\* no item of such a query has an empty position list for an include
\* term: that is what is checked of the result.
C28_AtomicEvaluation ==
    (evaluation.pc = "returned" /\ evaluation.search_query.uuids = <<>>) =>
        \A i \in 1..Len(evaluation.items) :
            \A term \in SeqToSet(evaluation.search_query.terms_include) :
                evaluation.items[i].matches[term] # <<>>

-----------------------------------------------------------------------------
(* Properties of the rename command *)

\* the rows of snip whose uuid holds the partial uuid
Resolved(id_partial) ==
    {i \in 1..Len(snip) : Contains(snip[i].uuid, id_partial)}

\* C29: the rename command changes the name of the document the partial
\* uuid resolves to and nothing else: the uuid, text and timestamp of that
\* document, every row of every other document, the attachments and the
\* index rows are unchanged; when the partial uuid does not resolve to
\* exactly one document nothing is changed.
C29_RenameFrame ==
    [][(pc = "idle" /\ pc' = "renamed") =>
          /\ snip_index_rs' = snip_index_rs
          /\ snip_attachment' = snip_attachment
          /\ Len(snip') = Len(snip)
          /\ IF Cardinality(Resolved(lookup'.input)) = 1
             THEN \A i \in 1..Len(snip) :
                     IF i \in Resolved(lookup'.input)
                     THEN /\ snip'[i].uuid = snip[i].uuid
                          /\ snip'[i].text = snip[i].text
                          /\ snip'[i].timestamp = snip[i].timestamp
                          /\ snip'[i].name = s'.name
                     ELSE snip'[i] = snip[i]
             ELSE snip' = snip]_vars

\* rename has given a new name to one of two documents that have index
\* rows, and an attachment is stored
C29_Witness ==
    /\ pc = "renamed"
    /\ lookup.output = "Ok"
    /\ Len(snip) = 2
    /\ snip[1].name # snip[2].name
    /\ snip_attachment # <<>>
    /\ \E i, j \in 1..Len(snip_index_rs) :
          snip_index_rs[i].uuid # snip_index_rs[j].uuid

====
